---------------------------- MODULE Spec2Model ----------------------------
(***************************************************************************)
(* PassQuantum: the encrypted vault (core/crypto, core/model,              *)
(* core/storage) and the session that drives it (ui/main.go).              *)
(*                                                                         *)
(* Representation.  A byte is a record [v, s]: v is its numeric value      *)
(* (0..255) and s is <<>> for an ordinary byte.  The output of a           *)
(* cryptographic primitive (SHA-256, HMAC-SHA256, Argon2id, AES-GCM,       *)
(* Kyber) is a "blob": n bytes whose first byte carries in s the term the  *)
(* output was computed from and whose other bytes are marked as its        *)
(* continuation.  Two blobs are equal exactly when they were computed      *)
(* from equal inputs (the primitives are collision free), and changing or  *)
(* dropping a byte of a blob gives the output of no computation.           *)
(***************************************************************************)
EXTENDS Integers, Sequences, FiniteSets, TLC

(***************************************************************************)
(* Bounds of the model.                                                    *)
(***************************************************************************)
\* number of add operations started in one behaviour
MaxAdds == 2
\* number of process starts in one behaviour
MaxRuns == 2
\* number of goroutines started and not yet run
MaxPending == 2
\* the length of the secret typed in SpecLong
LongSecretLen == 65520
\* the most well-formed entries a payload of SpecRead holds
MaxGood == 2
\* the most goroutines the buttons start in SpecConc
MaxGoroutines == 2
\* pieces a payload is put together from
MaxPieces == 3

(***************************************************************************)
(* Program constants.                                                      *)
(***************************************************************************)
SaltSize == 16
NonceSize == 12
GCMTagSize == 16
HMACSize == 32
KeySize == 32
MasterKeySize == 64
KDFParamsSize == 26
EntryHeaderSize == 24
VaultHeaderSize == 64
DefaultMemory == 65536
DefaultIterations == 1
DefaultParallelism == 4
VaultVersion == 1
\* kyber768.CiphertextSize
KyberCiphertextSize == 1088

(***************************************************************************)
(* Bytes and blobs.                                                        *)
(***************************************************************************)
\* an error is the chain of its messages, outermost first; Nil is no error
Nil == <<>>

B(n) == [v |-> n, s |-> <<>>]

(***************************************************************************)
(* A byte string is kept run-length encoded: a sequence of runs [b, n],    *)
(* n >= 1 copies of the byte b, adjacent runs holding different bytes.     *)
(* Every byte string has exactly one such form, so = is equality of byte   *)
(* strings.  <<>> is the empty (or nil) byte string.                       *)
(***************************************************************************)
Rep(b, n) == IF n <= 0 THEN <<>> ELSE <<[b |-> b, n |-> n]>>

B1(n) == Rep(B(n), 1)

Zeros(n) == Rep(B(0), n)

\* len(x)
RECURSIVE BLen(_)
BLen(x) == IF x = <<>> THEN 0 ELSE x[1].n + BLen(Tail(x))

\* append(x, y...)
Concat(x, y) ==
  IF x = <<>> THEN y
  ELSE IF y = <<>> THEN x
  ELSE IF x[Len(x)].b = y[1].b
  THEN SubSeq(x, 1, Len(x) - 1)
         \o <<[b |-> y[1].b, n |-> x[Len(x)].n + y[1].n]>> \o Tail(y)
  ELSE x \o y

x ++ y == Concat(x, y)

\* x[i - 1] of Go: the i-th byte, counted from 1
RECURSIVE BAt(_, _)
BAt(x, i) == IF i <= x[1].n THEN x[1].b ELSE BAt(Tail(x), i - x[1].n)

\* x[:k] and x[k:]
RECURSIVE BTake(_, _)
BTake(x, k) ==
  IF k <= 0 \/ x = <<>> THEN <<>>
  ELSE IF k >= x[1].n THEN <<x[1]>> \o BTake(Tail(x), k - x[1].n)
  ELSE <<[b |-> x[1].b, n |-> k]>>

RECURSIVE BDrop(_, _)
BDrop(x, k) ==
  IF k <= 0 \/ x = <<>> THEN x
  ELSE IF k >= x[1].n THEN BDrop(Tail(x), k - x[1].n)
  ELSE <<[b |-> x[1].b, n |-> x[1].n - k]>> \o Tail(x)

\* x with its i-th byte (counted from 1) replaced by b
BSet(x, i, b) == BTake(x, i - 1) ++ Rep(b, 1) ++ BDrop(x, i)

\* n with bit k inverted
FlipBit(n, k) == IF (n \div 2^k) % 2 = 1 THEN n - 2^k ELSE n + 2^k

\* data[lo:hi] of Go (0-based, hi exclusive)
Slice(data, lo, hi) == BTake(BDrop(data, lo), hi - lo)

\* copy(dst, src) of Go: the first min(len(dst), len(src)) bytes of dst
\* are overwritten, the rest of dst is kept.
Copy(dst, src) ==
  LET n == IF BLen(src) < BLen(dst) THEN BLen(src) ELSE BLen(dst)
  IN  BTake(src, n) ++ BDrop(dst, n)

\* the n bytes a primitive computes from term: the first byte names the
\* term, val is the numeric value of the bytes
Blob(term, n, val) ==
  Rep([v |-> val, s |-> <<"head", term, n>>], 1)
    ++ Rep([v |-> val, s |-> <<"pad">>], n - 1)

IsHead(b, tag) ==
  /\ Len(b.s) = 3
  /\ b.s[1] = "head"
  /\ b.s[2][1] = tag

(***************************************************************************)
(* encoding/binary, big endian.                                            *)
(***************************************************************************)
PutUint16(n) == B1((n \div 256) % 256) ++ B1(n % 256)

PutUint32(n) ==
  B1((n \div 16777216) % 256) ++ B1((n \div 65536) % 256)
    ++ B1((n \div 256) % 256) ++ B1(n % 256)

\* ids of the model are below 2^31, so the four high bytes are zero
PutUint64(n) == Zeros(4) ++ PutUint32(n)

Uint16(bs) == BAt(bs, 1).v * 256 + BAt(bs, 2).v

\* exact below 2^31; a larger value is only ever compared with buffer
\* lengths, all far below 2^31, and is read as 2^31 - 1
Uint32(bs) ==
  IF BAt(bs, 1).v >= 128 THEN 2147483647
  ELSE ((BAt(bs, 1).v * 256 + BAt(bs, 2).v) * 256 + BAt(bs, 3).v) * 256 + BAt(bs, 4).v

Uint64(bs) ==
  IF \E i \in 1..4 : BAt(bs, i).v # 0 THEN 2147483647 ELSE Uint32(Slice(bs, 4, 8))

\* uint16(n), byte(n)
ToUint16(n) == n % 65536
ToByte(n) == n % 256

(***************************************************************************)
(* Primitives.                                                             *)
(***************************************************************************)
SHA256(parts) == Blob(<<"sha256", parts>>, HMACSize, 0)

HMACSHA256(key, data) == Blob(<<"hmac", key, data>>, HMACSize, 0)

\* argon2.IDKey(password, salt, time, memory, threads, 64)
Argon2IDKey(password, salt, time, memory, threads) ==
  Blob(<<"argon2", password, salt, time, memory, threads>>, MasterKeySize, 0)

\* aes.NewCipher accepts keys of 16, 24 or 32 bytes
AESKeyOK(key) == BLen(key) \in {16, 24, 32}

\* gcm.Seal(nil, nonce, plaintext, nil): len(plaintext) + 16 bytes.  The
\* numeric value of the output bytes varies with the nonce.
GCMSeal(key, nonce, plaintext) ==
  Blob(<<"gcm", key, nonce, plaintext>>, BLen(plaintext) + GCMTagSize,
       BAt(nonce, 1).v)

\* gcm.Open(nil, nonce, ciphertext, nil)
GCMOpen(key, nonce, ciphertext) ==
  IF /\ BLen(ciphertext) >= GCMTagSize
     /\ IsHead(BAt(ciphertext, 1), "gcm")
     /\ BAt(ciphertext, 1).s[2][2] = key
     /\ BAt(ciphertext, 1).s[2][3] = nonce
     /\ ciphertext = GCMSeal(key, nonce, BAt(ciphertext, 1).s[2][4])
  THEN [err |-> Nil, plaintext |-> BAt(ciphertext, 1).s[2][4]]
  ELSE [err |-> <<"cipher: message authentication failed">>, plaintext |-> <<>>]

(***************************************************************************)
(* core/crypto/kdf.go                                                      *)
(***************************************************************************)
MkKDFParams(salt, memory, iterations, parallelism) ==
  [Salt |-> salt, Memory |-> memory, Iterations |-> iterations,
   Parallelism |-> parallelism]

DefaultKDFParams ==
  MkKDFParams(<<>>, DefaultMemory, DefaultIterations, DefaultParallelism)

\* GenerateSalt: 16 bytes read from crypto/rand; r is what the source gave
GenerateSalt(r) == Rep(B(r), SaltSize)

deriveKeyWithDomain(masterKey, domain, keyLen) ==
  LET hash == SHA256(<<domain, masterKey>>)
  IN  IF keyLen = 32 THEN hash
      ELSE Blob(<<"sha256ctr", hash>>, keyLen, 0)

\* DeriveKeys(masterPassword, params); r is the value crypto/rand returns
\* should a salt be generated.  argon2.IDKey panics when the number of
\* passes or the parallelism is below 1.
DeriveKeys(masterPassword, params, r) ==
  LET salt == IF BLen(params.Salt) = 0 THEN GenerateSalt(r) ELSE params.Salt
      masterKey == Argon2IDKey(masterPassword, salt, params.Iterations,
                               params.Memory, params.Parallelism)
  IN  IF params.Iterations < 1 \/ params.Parallelism < 1
      THEN [err |-> <<"panic">>, encryptionKey |-> <<>>, verificationKey |-> <<>>]
      ELSE [err |-> Nil,
            encryptionKey |-> deriveKeyWithDomain(masterKey, "encryption", KeySize),
            verificationKey |-> deriveKeyWithDomain(masterKey, "verification", KeySize)]

\* KDFParams.Serialize leaving data[25] zero
KDFParamsSerializeMutNoPar(p) ==
  B1(1) ++ Copy(Zeros(SaltSize), p.Salt) ++ PutUint32(p.Memory)
           ++ PutUint32(p.Iterations) ++ B1(0)

KDFParamsSerialize(p) ==
  B1(1) ++ Copy(Zeros(SaltSize), p.Salt) ++ PutUint32(p.Memory)
           ++ PutUint32(p.Iterations) ++ B1(p.Parallelism)

KDFParamsDeserialize(data) ==
  IF BLen(data) < KDFParamsSize
  THEN [err |-> <<"unexpected EOF">>, params |-> MkKDFParams(<<>>, 0, 0, 0)]
  ELSE [err |-> Nil,
        params |-> MkKDFParams(Slice(data, 1, 17),
                               Uint32(Slice(data, 17, 21)),
                               Uint32(Slice(data, 21, 25)),
                               BAt(data, 26).v)]

(***************************************************************************)
(* core/crypto/vault.go                                                    *)
(***************************************************************************)
NoVault == [Version |-> 0, KDFParams |-> MkKDFParams(<<>>, 0, 0, 0),
            HMAC |-> <<>>, EncryptedData |-> <<>>]

\* the bytes the HMAC is computed over
HMACInput(vault) ==
  B1(vault.Version) ++ KDFParamsSerialize(vault.KDFParams)
                       ++ vault.EncryptedData

\* EncryptVault with the tag keyed by the encryption key
EncryptVaultMutKey(plaintext, encryptionKey, verificationKey, params, nonce) ==
  IF ~AESKeyOK(encryptionKey)
  THEN [err |-> <<"crypto/aes: invalid key size">>, vault |-> NoVault]
  ELSE LET encryptedData == nonce ++ GCMSeal(encryptionKey, nonce, plaintext)
           v == [Version |-> VaultVersion, KDFParams |-> params,
                 HMAC |-> <<>>, EncryptedData |-> encryptedData]
       IN  [err |-> Nil,
            vault |-> [v EXCEPT !.HMAC = HMACSHA256(encryptionKey, HMACInput(v))]]

\* EncryptVault; nonce is the 12 bytes read from crypto/rand
EncryptVault(plaintext, encryptionKey, verificationKey, params, nonce) ==
  IF ~AESKeyOK(encryptionKey)
  THEN [err |-> <<"crypto/aes: invalid key size">>, vault |-> NoVault]
  ELSE LET encryptedData == nonce ++ GCMSeal(encryptionKey, nonce, plaintext)
           v == [Version |-> VaultVersion, KDFParams |-> params,
                 HMAC |-> <<>>, EncryptedData |-> encryptedData]
       IN  [err |-> Nil,
            vault |-> [v EXCEPT !.HMAC = HMACSHA256(verificationKey, HMACInput(v))]]

\* DecryptVault with the decryption done before the HMAC comparison
DecryptVaultMutOrder(vault, encryptionKey, verificationKey) ==
  LET opened == IF BLen(vault.EncryptedData) >= NonceSize /\ AESKeyOK(encryptionKey)
                THEN GCMOpen(encryptionKey,
                             Slice(vault.EncryptedData, 0, NonceSize),
                             Slice(vault.EncryptedData, NonceSize,
                                   BLen(vault.EncryptedData)))
                ELSE [err |-> <<"invalid">>, plaintext |-> <<>>]
  IN  IF opened.err # Nil
      THEN [err |-> <<"decryption failed">> \o opened.err, plaintext |-> <<>>,
            steps |-> <<"gcm.Open">>]
      ELSE IF HMACSHA256(verificationKey, HMACInput(vault)) # vault.HMAC
      THEN [err |-> <<"vault integrity check failed: HMAC mismatch">>,
            plaintext |-> <<>>, steps |-> <<"gcm.Open", "hmac.Equal">>]
      ELSE [err |-> Nil, plaintext |-> opened.plaintext,
            steps |-> <<"gcm.Open", "hmac.Equal">>]

\* DecryptVault without the HMAC comparison
DecryptVaultMutNoHMAC(vault, encryptionKey, verificationKey) ==
  IF BLen(vault.EncryptedData) < NonceSize
  THEN [err |-> <<"invalid encrypted data: too short">>,
        plaintext |-> <<>>, steps |-> <<>>]
  ELSE IF ~AESKeyOK(encryptionKey)
  THEN [err |-> <<"crypto/aes: invalid key size">>,
        plaintext |-> <<>>, steps |-> <<>>]
  ELSE LET opened == GCMOpen(encryptionKey,
                             Slice(vault.EncryptedData, 0, NonceSize),
                             Slice(vault.EncryptedData, NonceSize,
                                   BLen(vault.EncryptedData)))
       IN  IF opened.err # Nil
           THEN [err |-> <<"decryption failed">> \o opened.err,
                 plaintext |-> <<>>, steps |-> <<"gcm.Open">>]
           ELSE [err |-> Nil, plaintext |-> opened.plaintext,
                 steps |-> <<"gcm.Open">>]

\* DecryptVault reporting a failure of gcm.Open as an HMAC mismatch
DecryptVaultMutOneError(vault, encryptionKey, verificationKey) ==
  IF HMACSHA256(verificationKey, HMACInput(vault)) # vault.HMAC
  THEN [err |-> <<"vault integrity check failed: HMAC mismatch">>,
        plaintext |-> <<>>, steps |-> <<"hmac.Equal">>]
  ELSE IF BLen(vault.EncryptedData) < NonceSize
  THEN [err |-> <<"invalid encrypted data: too short">>,
        plaintext |-> <<>>, steps |-> <<"hmac.Equal">>]
  ELSE IF ~AESKeyOK(encryptionKey)
  THEN [err |-> <<"crypto/aes: invalid key size">>,
        plaintext |-> <<>>, steps |-> <<"hmac.Equal">>]
  ELSE LET opened == GCMOpen(encryptionKey,
                             Slice(vault.EncryptedData, 0, NonceSize),
                             Slice(vault.EncryptedData, NonceSize,
                                   BLen(vault.EncryptedData)))
       IN  IF opened.err # Nil
           THEN [err |-> <<"vault integrity check failed: HMAC mismatch">>,
                 plaintext |-> <<>>, steps |-> <<"hmac.Equal", "gcm.Open">>]
           ELSE [err |-> Nil, plaintext |-> opened.plaintext,
                 steps |-> <<"hmac.Equal", "gcm.Open">>]

\* DecryptVault; steps lists the stages that ran, in order
DecryptVault(vault, encryptionKey, verificationKey) ==
  IF HMACSHA256(verificationKey, HMACInput(vault)) # vault.HMAC
  THEN [err |-> <<"vault integrity check failed: HMAC mismatch">>,
        plaintext |-> <<>>, steps |-> <<"hmac.Equal">>]
  ELSE IF BLen(vault.EncryptedData) < NonceSize
  THEN [err |-> <<"invalid encrypted data: too short">>,
        plaintext |-> <<>>, steps |-> <<"hmac.Equal">>]
  ELSE IF ~AESKeyOK(encryptionKey)
  THEN [err |-> <<"crypto/aes: invalid key size">>,
        plaintext |-> <<>>, steps |-> <<"hmac.Equal">>]
  ELSE LET opened == GCMOpen(encryptionKey,
                             Slice(vault.EncryptedData, 0, NonceSize),
                             Slice(vault.EncryptedData, NonceSize,
                                   BLen(vault.EncryptedData)))
       IN  IF opened.err # Nil
           THEN [err |-> <<"decryption failed">> \o opened.err,
                 plaintext |-> <<>>, steps |-> <<"hmac.Equal", "gcm.Open">>]
           ELSE [err |-> Nil, plaintext |-> opened.plaintext,
                 steps |-> <<"hmac.Equal", "gcm.Open">>]

VaultFileSerialize(v) ==
  LET kdfData == KDFParamsSerialize(v.KDFParams)
  IN  B1(v.Version) ++ B1(ToByte(BLen(kdfData))) ++ kdfData
        ++ Copy(Zeros(HMACSize), v.HMAC)
        ++ PutUint32(BLen(v.EncryptedData)) ++ v.EncryptedData

\* VaultFileDeserialize without the check of the version byte
VaultFileDeserializeMutAnyVersion(data) ==
  IF BLen(data) < 1 + 1 + 26 + 32 + 4
  THEN [err |-> <<"unexpected EOF">>, vault |-> NoVault]
  ELSE LET kdfLen == BAt(data, 2).v
           idx1 == 2
       IN  IF BLen(data) < idx1 + kdfLen + 32 + 4
           THEN [err |-> <<"unexpected EOF">>, vault |-> NoVault]
           ELSE LET kdf == KDFParamsDeserialize(Slice(data, idx1, idx1 + kdfLen))
                    idx2 == idx1 + kdfLen
                    hmac == Slice(data, idx2, idx2 + 32)
                    idx3 == idx2 + 32
                    encryptedLen == Uint32(Slice(data, idx3, idx3 + 4))
                    idx4 == idx3 + 4
                IN  IF kdf.err # Nil
                    THEN [err |-> <<"failed to deserialize KDF params">> \o kdf.err,
                          vault |-> NoVault]
                    ELSE IF BLen(data) - idx4 < encryptedLen
                    THEN [err |-> <<"unexpected EOF">>, vault |-> NoVault]
                    ELSE [err |-> Nil,
                          vault |-> [Version |-> BAt(data, 1).v,
                                     KDFParams |-> kdf.params,
                                     HMAC |-> hmac,
                                     EncryptedData |->
                                       Slice(data, idx4, idx4 + encryptedLen)]]

VaultFileDeserializeMutToEnd(data) ==
  IF BLen(data) < 1 + 1 + 26 + 32 + 4
  THEN [err |-> <<"unexpected EOF">>, vault |-> NoVault]
  ELSE IF BAt(data, 1).v # 1
  THEN [err |-> <<"unsupported vault version">>, vault |-> NoVault]
  ELSE LET kdfLen == BAt(data, 2).v
           idx1 == 2
       IN  IF BLen(data) < idx1 + kdfLen + 32 + 4
           THEN [err |-> <<"unexpected EOF">>, vault |-> NoVault]
           ELSE LET kdf == KDFParamsDeserialize(Slice(data, idx1, idx1 + kdfLen))
                    idx2 == idx1 + kdfLen
                    hmac == Slice(data, idx2, idx2 + 32)
                    idx3 == idx2 + 32
                    encryptedLen == Uint32(Slice(data, idx3, idx3 + 4))
                    idx4 == idx3 + 4
                IN  IF kdf.err # Nil
                    THEN [err |-> <<"failed to deserialize KDF params">> \o kdf.err,
                          vault |-> NoVault]
                    ELSE IF BLen(data) - idx4 < encryptedLen
                    THEN [err |-> <<"unexpected EOF">>, vault |-> NoVault]
                    ELSE [err |-> Nil,
                          vault |-> [Version |-> BAt(data, 1).v,
                                     KDFParams |-> kdf.params,
                                     HMAC |-> hmac,
                                     EncryptedData |-> BDrop(data, idx4)]]

VaultFileDeserialize(data) ==
  IF BLen(data) < 1 + 1 + 26 + 32 + 4
  THEN [err |-> <<"unexpected EOF">>, vault |-> NoVault]
  ELSE IF BAt(data, 1).v # 1
  THEN [err |-> <<"unsupported vault version">>, vault |-> NoVault]
  ELSE LET kdfLen == BAt(data, 2).v
           idx1 == 2
       IN  IF BLen(data) < idx1 + kdfLen + 32 + 4
           THEN [err |-> <<"unexpected EOF">>, vault |-> NoVault]
           ELSE LET kdf == KDFParamsDeserialize(Slice(data, idx1, idx1 + kdfLen))
                    idx2 == idx1 + kdfLen
                    hmac == Slice(data, idx2, idx2 + 32)
                    idx3 == idx2 + 32
                    encryptedLen == Uint32(Slice(data, idx3, idx3 + 4))
                    idx4 == idx3 + 4
                IN  IF kdf.err # Nil
                    THEN [err |-> <<"failed to deserialize KDF params">> \o kdf.err,
                          vault |-> NoVault]
                    ELSE IF BLen(data) - idx4 < encryptedLen
                    THEN [err |-> <<"unexpected EOF">>, vault |-> NoVault]
                    ELSE [err |-> Nil,
                          vault |-> [Version |-> BAt(data, 1).v,
                                     KDFParams |-> kdf.params,
                                     HMAC |-> hmac,
                                     EncryptedData |->
                                       Slice(data, idx4, idx4 + encryptedLen)]]

(***************************************************************************)
(* core/crypto/kyber.go and core/crypto/aes.go                             *)
(***************************************************************************)
\* Encapsulate(publicKey): kp names the key pair, r the randomness used
Encapsulate(kp, r) ==
  [ct |-> Blob(<<"kyber", kp, r>>, KyberCiphertextSize, r),
   ss |-> Blob(<<"kyber-ss", kp, r>>, KeySize, 0)]

\* Decapsulate(encapsulatedSecret, privateKey): DecapsulateTo panics on a
\* ciphertext of the wrong size and otherwise always returns a secret (an
\* unrelated one for a ciphertext that was not encapsulated to kp)
Decapsulate(encapsulatedSecret, kp) ==
  IF BLen(encapsulatedSecret) # KyberCiphertextSize
  THEN [err |-> <<"panic">>, ss |-> <<>>]
  ELSE IF /\ IsHead(BAt(encapsulatedSecret, 1), "kyber")
          /\ BAt(encapsulatedSecret, 1).s[2][2] = kp
          /\ encapsulatedSecret =
               Encapsulate(kp, BAt(encapsulatedSecret, 1).s[2][3]).ct
  THEN [err |-> Nil, ss |-> Encapsulate(kp, BAt(encapsulatedSecret, 1).s[2][3]).ss]
  ELSE [err |-> Nil,
        ss |-> Blob(<<"kyber-reject", kp, encapsulatedSecret>>, KeySize, 0)]

\* EncryptAES256GCM(plaintext, sharedSecret); nonce is read from crypto/rand
EncryptAES256GCM(plaintext, sharedSecret, nonce) ==
  [err |-> Nil, nonce |-> nonce,
   ciphertext |-> GCMSeal(Slice(sharedSecret, 0, 32), nonce, plaintext)]

\* DecryptAES256GCM keyed by the whole shared secret
DecryptAES256GCMMutWholeKey(nonce, ciphertext, sharedSecret) ==
  GCMOpen(sharedSecret, nonce, ciphertext)

DecryptAES256GCM(nonce, ciphertext, sharedSecret) ==
  GCMOpen(Slice(sharedSecret, 0, 32), nonce, ciphertext)

(***************************************************************************)
(* core/model/password_entry.go                                            *)
(***************************************************************************)
MkEntry(id, kyberCiphertext, nonce, ciphertext) ==
  [ID |-> id, KyberCiphertext |-> kyberCiphertext, Nonce |-> nonce,
   Ciphertext |-> ciphertext]

\* NewPasswordEntry: the id is 8 bytes read from crypto/rand
NewPasswordEntry(idBytes) == MkEntry(Uint64(idBytes), <<>>, <<>>, <<>>)

EntrySerialize(pe) ==
  PutUint64(pe.ID)
    ++ PutUint16(ToUint16(BLen(pe.KyberCiphertext))) ++ pe.KyberCiphertext
    ++ Copy(Zeros(NonceSize), pe.Nonce)
    ++ PutUint16(ToUint16(BLen(pe.Ciphertext))) ++ pe.Ciphertext

EntryDeserializeMutNoCheck(data) ==
  IF BLen(data) < 8 + 2 + 12 + 2
  THEN [err |-> <<"invalid password entry: too short">>,
        entry |-> MkEntry(0, <<>>, <<>>, <<>>)]
  ELSE LET kyberLen == Uint16(Slice(data, 8, 10))
           idx1 == 10
       IN  IF BLen(data) < idx1 + kyberLen + 12 + 2
           THEN [err |-> <<"invalid password entry: truncated kyber ciphertext">>,
                 entry |-> MkEntry(0, <<>>, <<>>, <<>>)]
           ELSE LET idx2 == idx1 + kyberLen
                    idx3 == idx2 + 12
                    ciphertextLen == Uint16(Slice(data, idx3, idx3 + 2))
                    idx4 == idx3 + 2
                IN  [err |-> Nil,
                     entry |-> MkEntry(Uint64(Slice(data, 0, 8)),
                                       Slice(data, idx1, idx2),
                                       Slice(data, idx2, idx3),
                                       Slice(data, idx4, idx4 + ciphertextLen))]

EntryDeserialize(data) ==
  IF BLen(data) < 8 + 2 + 12 + 2
  THEN [err |-> <<"invalid password entry: too short">>,
        entry |-> MkEntry(0, <<>>, <<>>, <<>>)]
  ELSE LET kyberLen == Uint16(Slice(data, 8, 10))
           idx1 == 10
       IN  IF BLen(data) < idx1 + kyberLen + 12 + 2
           THEN [err |-> <<"invalid password entry: truncated kyber ciphertext">>,
                 entry |-> MkEntry(0, <<>>, <<>>, <<>>)]
           ELSE LET idx2 == idx1 + kyberLen
                    idx3 == idx2 + 12
                    ciphertextLen == Uint16(Slice(data, idx3, idx3 + 2))
                    idx4 == idx3 + 2
                IN  IF BLen(data) < idx4 + ciphertextLen
                    THEN [err |-> <<"invalid password entry: truncated ciphertext">>,
                          entry |-> MkEntry(0, <<>>, <<>>, <<>>)]
                    ELSE [err |-> Nil,
                          entry |-> MkEntry(Uint64(Slice(data, 0, 8)),
                                            Slice(data, idx1, idx2),
                                            Slice(data, idx2, idx3),
                                            Slice(data, idx4, idx4 + ciphertextLen))]

\* WipeBytes(data): what data holds afterwards
WipeBytes(data) == Zeros(BLen(data))

(***************************************************************************)
(* core/storage/storage.go                                                 *)
(***************************************************************************)
NoFile == Rep([v |-> 0, s |-> <<"no file">>], 1)

\* a file that exists and that os.ReadFile cannot read
Unreadable == Rep([v |-> 0, s |-> <<"unreadable">>], 1)

\* os.ReadFile(vaultPath) and os.IsNotExist(err)
ReadFile(file) ==
  IF file = NoFile
  THEN [err |-> <<"no such file or directory">>, data |-> <<>>]
  ELSE IF file = Unreadable
  THEN [err |-> <<"permission denied">>, data |-> <<>>]
  ELSE [err |-> Nil, data |-> file]

IsNotExist(err) == err = <<"no such file or directory">>

RECURSIVE SerializeAll(_)
SerializeAll(entries) ==
  IF entries = <<>> THEN <<>>
  ELSE EntrySerialize(Head(entries)) ++ SerializeAll(Tail(entries))

\* WriteVault up to the call of os.WriteFile: the error, or the bytes to write
WriteVaultData(entries, encryptionKey, verificationKey, kdfParams, nonce) ==
  LET enc == EncryptVault(SerializeAll(entries), encryptionKey,
                          verificationKey, kdfParams, nonce)
  IN  IF enc.err # Nil
      THEN [err |-> <<"failed to encrypt vault">> \o enc.err, data |-> <<>>]
      ELSE [err |-> Nil, data |-> VaultFileSerialize(enc.vault)]

RECURSIVE ParseEntriesMutWarn(_, _, _, _)
ParseEntriesMutWarn(plaintext, idx, entries, warnings) ==
  IF ~(idx < BLen(plaintext)) \/ idx + 24 > BLen(plaintext)
  THEN [entries |-> entries, warnings |-> warnings]
  ELSE LET kyberLen == BAt(plaintext, idx + 8 + 1).v * 256 + BAt(plaintext, idx + 9 + 1).v
           posCiphertextLen == idx + 8 + 2 + kyberLen + 12
       IN  IF posCiphertextLen + 2 > BLen(plaintext)
           THEN [entries |-> entries, warnings |-> warnings + 1]
           ELSE LET ciphertextLen == BAt(plaintext, posCiphertextLen + 1).v * 256
                                       + BAt(plaintext, posCiphertextLen + 1 + 1).v
                    totalEntrySize == 8 + 2 + kyberLen + 12 + 2 + ciphertextLen
                IN  IF idx + totalEntrySize > BLen(plaintext)
                    THEN [entries |-> entries, warnings |-> warnings + 1]
                    ELSE LET d == EntryDeserialize(
                                    Slice(plaintext, idx, idx + totalEntrySize))
                         IN  IF d.err # Nil
                             THEN ParseEntriesMutWarn(plaintext, idx + totalEntrySize,
                                                      entries, warnings + 1)
                             ELSE ParseEntriesMutWarn(plaintext, idx + totalEntrySize,
                                                      Append(entries, d.entry), warnings)

\* the entry parsing loop of ReadVault, from offset idx
RECURSIVE ParseEntries(_, _, _, _)
ParseEntries(plaintext, idx, entries, warnings) ==
  IF ~(idx < BLen(plaintext)) \/ idx + 24 > BLen(plaintext)
  THEN [entries |-> entries, warnings |-> warnings]
  ELSE LET kyberLen == BAt(plaintext, idx + 8 + 1).v * 256 + BAt(plaintext, idx + 9 + 1).v
           posCiphertextLen == idx + 8 + 2 + kyberLen + 12
       IN  IF posCiphertextLen + 2 > BLen(plaintext)
           THEN [entries |-> entries, warnings |-> warnings]
           ELSE LET ciphertextLen == BAt(plaintext, posCiphertextLen + 1).v * 256
                                       + BAt(plaintext, posCiphertextLen + 1 + 1).v
                    totalEntrySize == 8 + 2 + kyberLen + 12 + 2 + ciphertextLen
                IN  IF idx + totalEntrySize > BLen(plaintext)
                    THEN [entries |-> entries, warnings |-> warnings]
                    ELSE LET d == EntryDeserialize(
                                    Slice(plaintext, idx, idx + totalEntrySize))
                         IN  IF d.err # Nil
                             THEN ParseEntries(plaintext, idx + totalEntrySize,
                                               entries, warnings + 1)
                             ELSE ParseEntries(plaintext, idx + totalEntrySize,
                                               Append(entries, d.entry), warnings)

\* ReadVault treating a file that does not parse like a missing file
ReadVaultMutSwallow(file, encryptionKey, verificationKey) ==
  IF ReadFile(file).err # Nil
  THEN IF IsNotExist(ReadFile(file).err)
       THEN [err |-> Nil, entries |-> <<>>, warnings |-> 0]
       ELSE [err |-> <<"failed to read vault file">> \o ReadFile(file).err,
             entries |-> <<>>, warnings |-> 0]
  ELSE LET des == VaultFileDeserialize(file)
           dec == DecryptVault(des.vault, encryptionKey, verificationKey)
           parsed == ParseEntries(dec.plaintext, 0, <<>>, 0)
       IN  IF des.err # Nil
           THEN [err |-> Nil, entries |-> <<>>, warnings |-> 0]
           ELSE IF dec.err # Nil
           THEN [err |-> <<"failed to decrypt vault">> \o dec.err,
                 entries |-> <<>>,
                 warnings |-> 0]
           ELSE [err |-> Nil, entries |-> parsed.entries,
                 warnings |-> parsed.warnings]

\* ReadVault treating every failure of os.ReadFile like a missing file
ReadVaultMutAnyReadErr(file, encryptionKey, verificationKey) ==
  IF ReadFile(file).err # Nil
  THEN [err |-> Nil, entries |-> <<>>, warnings |-> 0]
  ELSE LET des == VaultFileDeserialize(file)
           dec == DecryptVault(des.vault, encryptionKey, verificationKey)
           parsed == ParseEntries(dec.plaintext, 0, <<>>, 0)
       IN  IF des.err # Nil
           THEN [err |-> <<"failed to deserialize vault">> \o des.err,
                 entries |-> <<>>, warnings |-> 0]
           ELSE IF dec.err # Nil
           THEN [err |-> <<"failed to decrypt vault">> \o dec.err,
                 entries |-> <<>>, warnings |-> 0]
           ELSE [err |-> Nil, entries |-> parsed.entries,
                 warnings |-> parsed.warnings]

\* ReadVault(vaultPath, encryptionKey, verificationKey) on the file content
ReadVault(file, encryptionKey, verificationKey) ==
  IF ReadFile(file).err # Nil
  THEN IF IsNotExist(ReadFile(file).err)
       THEN [err |-> Nil, entries |-> <<>>, warnings |-> 0]
       ELSE [err |-> <<"failed to read vault file">> \o ReadFile(file).err,
             entries |-> <<>>, warnings |-> 0]
  ELSE LET des == VaultFileDeserialize(file)
           dec == DecryptVault(des.vault, encryptionKey, verificationKey)
           parsed == ParseEntries(dec.plaintext, 0, <<>>, 0)
       IN  IF des.err # Nil
           THEN [err |-> <<"failed to deserialize vault">> \o des.err,
                 entries |-> <<>>,
                 warnings |-> 0]
           ELSE IF dec.err # Nil
           THEN [err |-> <<"failed to decrypt vault">> \o dec.err,
                 entries |-> <<>>,
                 warnings |-> 0]
           ELSE [err |-> Nil, entries |-> parsed.entries,
                 warnings |-> parsed.warnings]

\* VaultExists(vaultPath)
VaultExists(file) == file # NoFile

(***************************************************************************)
(* State.                                                                  *)
(***************************************************************************)
VARIABLES
  vaultFile,    \* content of vault.pqdb, or NoFile
  keypairFile,  \* the key pair stored in public.key / private.key, 0 if none
  appState,     \* the AppState of the running process
  screen,       \* "off", "create", "unlock", "main", "quit"
  goroutines,   \* goroutines started by the Add / View buttons, not yet run
  inputs,       \* what the user may type and do, what crypto/rand may return
  nAdds,        \* add operations started
  nRuns,        \* process starts
  added,        \* history: the entries added to the vault, with their secrets
  lastOp,       \* history: the last create, unlock, add or view, its error
                \* and the master password it was given or found in appState
  lastWrite,    \* history: the last call of WriteVault
  shown,        \* the last list shown by showPasswordsWindow
  keyBuffers,   \* the byte slices DeriveKeys returned and appState was given
                \* in this process, with the bytes they hold now
  trial         \* the package functions called directly, as the tests of
                \* the packages call them: the values passed and returned

\* the variables of the running application
session == <<vaultFile, keypairFile, appState, screen, goroutines, inputs,
             nAdds, nRuns, added, lastOp, lastWrite, shown, keyBuffers>>

vars == <<vaultFile, keypairFile, appState, screen, goroutines, inputs,
          nAdds, nRuns, added, lastOp, lastWrite, shown, keyBuffers, trial>>

ZeroAppState ==
  [publicKey |-> 0, privateKey |-> 0, masterPassword |-> "",
   encryptionKey |-> <<>>, verificationKey |-> <<>>,
   kdfParams |-> MkKDFParams(<<>>, 0, 0, 0), isUnlocked |-> FALSE]

KeyIds == {1}

\* n bytes read from crypto/rand
RandBytes(n, r) == Rep(B(r), n)

ShortSecrets == {B1(104), B1(104) ++ B1(50)}

LongSecret == Rep(B(97), LongSecretLen)

NoWrite == [status |-> "none", prevFile |-> NoFile, oldEntries |-> <<>>,
            newEntries |-> <<>>, encryptionKey |-> <<>>,
            verificationKey |-> <<>>]

NoOp == [op |-> "", err |-> Nil, pw |-> ""]

\* no key was derived in this process
NoBuffers == [encryptionKey |-> <<>>, verificationKey |-> <<>>]

InitWith(in) ==
  /\ vaultFile = NoFile
  /\ keypairFile = 0
  /\ appState = ZeroAppState
  /\ screen = "off"
  /\ goroutines = <<>>
  /\ inputs = in
  /\ nAdds = 0
  /\ nRuns = 0
  /\ added = <<>>
  /\ lastOp = NoOp
  /\ lastWrite = NoWrite
  /\ shown = <<>>
  /\ keyBuffers = NoBuffers
  /\ trial = [phase |-> "start"]

Init ==
  InitWith([passwords |-> {"Tr0ub4dor&3", "wrong-pw"},
            secrets |-> ShortSecrets, rand |-> {1, 255}, salts |-> {7},
            maxAdds |-> MaxAdds])

\* the same program, the user typing one very long secret
InitLong ==
  InitWith([passwords |-> {"Tr0ub4dor&3"},
            secrets |-> {LongSecret}, rand |-> {100, 255}, salts |-> {7},
            maxAdds |-> 1])

(***************************************************************************)
(* os.WriteFile(vaultPath, vaultData, 0600): the file is opened with       *)
(* O_TRUNC and the data written; a failure leaves the file as it was       *)
(* (open failed) or holding the bytes written so far, a proper prefix of   *)
(* the data.                                                               *)
(***************************************************************************)
CutPoints(data) ==
  {0, VaultHeaderSize, BLen(data) - 1} \cap (0..(BLen(data) - 1))

WriteFile(old, data) ==
  {[err |-> Nil, file |-> data],
   [err |-> <<"failed to write vault file">>, file |-> old]}
  \cup {[err |-> <<"failed to write vault file">>, file |-> BTake(data, k)] :
          k \in CutPoints(data)}

Remove(seq, i) == SubSeq(seq, 1, i - 1) \o SubSeq(seq, i + 1, Len(seq))

(***************************************************************************)
(* ui/main.go                                                              *)
(***************************************************************************)
\* main, initializeApp, promptMasterPassword
Start ==
  /\ screen = "off"
  /\ nRuns < MaxRuns
  /\ nRuns' = nRuns + 1
  /\ \E k \in KeyIds :
       LET kp == IF keypairFile = 0 THEN k ELSE keypairFile
       IN  /\ keypairFile' = kp
           /\ appState' = [ZeroAppState EXCEPT !.publicKey = kp,
                                               !.privateKey = kp]
  /\ screen' = IF VaultExists(vaultFile) THEN "unlock" ELSE "create"
  /\ goroutines' = <<>>
  /\ keyBuffers' = NoBuffers
  /\ UNCHANGED trial
  /\ UNCHANGED <<vaultFile, inputs, nAdds, added, lastOp, lastWrite,
                 shown>>

\* the window is closed or the application quits: the process ends
Exit ==
  /\ screen # "off"
  /\ screen' = "off"
  /\ appState' = ZeroAppState
  /\ goroutines' = <<>>
  /\ lastOp' = NoOp
  /\ lastWrite' = NoWrite
  /\ shown' = <<>>
  /\ keyBuffers' = NoBuffers
  /\ UNCHANGED trial
  /\ UNCHANGED <<vaultFile, keypairFile, inputs, nAdds, nRuns, added>>

createNewVault(masterPassword, r) ==
  /\ screen = "create"
  /\ LET kdfParams == [DefaultKDFParams EXCEPT !.Salt = GenerateSalt(r)]
         keys == DeriveKeys(masterPassword, kdfParams, r)
         w == WriteVaultData(<<>>, keys.encryptionKey, keys.verificationKey,
                             kdfParams, RandBytes(NonceSize, r))
     IN  \E out \in WriteFile(vaultFile, w.data) :
           /\ vaultFile' = out.file
           /\ lastWrite' = [status |-> IF out.err = Nil THEN "ok" ELSE "failed",
                            prevFile |-> vaultFile, oldEntries |-> <<>>,
                            newEntries |-> <<>>,
                            encryptionKey |-> keys.encryptionKey,
                            verificationKey |-> keys.verificationKey]
           /\ IF out.err = Nil
              THEN /\ appState' = [appState EXCEPT
                                     !.masterPassword = masterPassword,
                                     !.encryptionKey = keys.encryptionKey,
                                     !.verificationKey = keys.verificationKey,
                                     !.kdfParams = kdfParams,
                                     !.isUnlocked = TRUE]
                   /\ keyBuffers' = [encryptionKey |-> keys.encryptionKey,
                                     verificationKey |-> keys.verificationKey]
                   /\ screen' = "main"
                   /\ added' = <<>>
                   /\ lastOp' = [op |-> "create", err |-> Nil,
                                 pw |-> masterPassword]
              ELSE /\ lastOp' = [op |-> "create",
                                 err |-> <<"failed to create vault">> \o out.err,
                                 pw |-> masterPassword]
                   /\ UNCHANGED <<appState, screen, added, keyBuffers>>
  /\ UNCHANGED trial
  /\ UNCHANGED <<keypairFile, goroutines, inputs, nAdds, nRuns, shown>>

\* unlockVault up to its return: the error, and what it stores in appState
unlockVaultOutcome(file, masterPassword, r) ==
  LET des == VaultFileDeserialize(file)
      keys == DeriveKeys(masterPassword, des.vault.KDFParams, r)
      dec == DecryptVault(des.vault, keys.encryptionKey, keys.verificationKey)
      fail(e) == [err |-> e, encryptionKey |-> <<>>, verificationKey |-> <<>>,
                  kdfParams |-> ZeroAppState.kdfParams]
  IN  IF ReadFile(file).err # Nil
      THEN fail(<<"failed to read vault">> \o ReadFile(file).err)
      ELSE IF des.err # Nil
      THEN fail(<<"failed to parse vault">> \o des.err)
      ELSE IF keys.err # Nil
      THEN fail(keys.err)
      ELSE IF dec.err # Nil
      THEN fail(<<"invalid master password or vault corrupted">> \o dec.err)
      ELSE [err |-> Nil, encryptionKey |-> keys.encryptionKey,
            verificationKey |-> keys.verificationKey,
            kdfParams |-> des.vault.KDFParams]

\* unlockVault removing the vault file when it fails
unlockVaultMutRemovesFile(masterPassword, r) ==
  /\ screen = "unlock"
  /\ LET out == unlockVaultOutcome(vaultFile, masterPassword, r)
     IN  /\ lastOp' = [op |-> "unlock", err |-> out.err, pw |-> masterPassword]
         /\ IF out.err = <<"panic">>
            THEN \* argon2.IDKey panicked: the process dies
                 /\ screen' = "off"
                 /\ appState' = ZeroAppState
                 /\ goroutines' = <<>>
                 /\ keyBuffers' = NoBuffers
            ELSE IF out.err # Nil
            THEN UNCHANGED <<appState, screen, goroutines, keyBuffers>>
            ELSE /\ appState' = [appState EXCEPT
                                   !.masterPassword = masterPassword,
                                   !.encryptionKey = out.encryptionKey,
                                   !.verificationKey = out.verificationKey,
                                   !.kdfParams = out.kdfParams,
                                   !.isUnlocked = TRUE]
                 /\ keyBuffers' = [encryptionKey |-> out.encryptionKey,
                                   verificationKey |-> out.verificationKey]
                 /\ screen' = "main"
                 /\ UNCHANGED goroutines
  /\ UNCHANGED trial
  /\ vaultFile' = IF unlockVaultOutcome(vaultFile, masterPassword, r).err # Nil
                  THEN NoFile ELSE vaultFile
  /\ UNCHANGED <<keypairFile, inputs, nAdds, nRuns, added, lastWrite, shown>>

unlockVault(masterPassword, r) ==
  /\ screen = "unlock"
  /\ LET out == unlockVaultOutcome(vaultFile, masterPassword, r)
     IN  /\ lastOp' = [op |-> "unlock", err |-> out.err, pw |-> masterPassword]
         /\ IF out.err = <<"panic">>
            THEN \* argon2.IDKey panicked: the process dies
                 /\ screen' = "off"
                 /\ appState' = ZeroAppState
                 /\ goroutines' = <<>>
                 /\ keyBuffers' = NoBuffers
            ELSE IF out.err # Nil
            THEN UNCHANGED <<appState, screen, goroutines, keyBuffers>>
            ELSE /\ appState' = [appState EXCEPT
                                   !.masterPassword = masterPassword,
                                   !.encryptionKey = out.encryptionKey,
                                   !.verificationKey = out.verificationKey,
                                   !.kdfParams = out.kdfParams,
                                   !.isUnlocked = TRUE]
                 /\ keyBuffers' = [encryptionKey |-> out.encryptionKey,
                                   verificationKey |-> out.verificationKey]
                 /\ screen' = "main"
                 /\ UNCHANGED goroutines
  /\ UNCHANGED trial
  /\ UNCHANGED <<vaultFile, keypairFile, inputs, nAdds, nRuns, added,
                 lastWrite, shown>>

\* the Add Password button: the handler starts the goroutine
ClickAdd(pass) ==
  /\ screen = "main"
  /\ pass # <<>>
  /\ nAdds < inputs.maxAdds
  /\ Len(goroutines) < MaxPending
  /\ nAdds' = nAdds + 1
  /\ goroutines' = Append(goroutines, [kind |-> "add", pass |-> pass])
  /\ UNCHANGED <<trial, keyBuffers>>
  /\ UNCHANGED <<vaultFile, keypairFile, appState, screen, inputs, nRuns,
                 added, lastOp, lastWrite, shown>>

\* the Add Password goroutine from Encapsulate to the filled entry; r is
\* what crypto/rand returns
EncryptEntry(pass, publicKey, r) ==
  LET enc == Encapsulate(publicKey, r)
      aes == EncryptAES256GCM(pass, enc.ss, RandBytes(NonceSize, r))
  IN  [NewPasswordEntry(Zeros(7) ++ B1(r)) EXCEPT
         !.KyberCiphertext = enc.ct,
         !.Nonce = aes.nonce,
         !.Ciphertext = aes.ciphertext]

\* the Add Password goroutine; it holds appState.mu from start to end.
\* r is what crypto/rand returns to it.
AddGoroutine(i, r) ==
  /\ screen \in {"main", "quit"}
  /\ i \in 1..Len(goroutines)
  /\ goroutines[i].kind = "add"
  /\ goroutines' = Remove(goroutines, i)
  /\ LET pass == goroutines[i].pass
         rd == ReadVault(vaultFile, appState.encryptionKey,
                         appState.verificationKey)
         entry == EncryptEntry(pass, appState.publicKey, r)
         entries == Append(rd.entries, entry)
         w == WriteVaultData(entries, appState.encryptionKey,
                             appState.verificationKey, appState.kdfParams,
                             RandBytes(NonceSize, r))
     IN  /\ IF rd.err # Nil
            THEN /\ lastOp' = [op |-> "add",
                               err |-> <<"failed to read vault">> \o rd.err,
                               pw |-> appState.masterPassword]
                 /\ UNCHANGED <<vaultFile, added, lastWrite>>
            ELSE IF w.err # Nil
            THEN /\ lastOp' = [op |-> "add",
                               err |-> <<"failed to save password">> \o w.err,
                               pw |-> appState.masterPassword]
                 /\ UNCHANGED <<vaultFile, added, lastWrite>>
            ELSE \E out \in WriteFile(vaultFile, w.data) :
                   /\ vaultFile' = out.file
                   /\ lastWrite' =
                        [status |-> IF out.err = Nil THEN "ok" ELSE "failed",
                         prevFile |-> vaultFile, oldEntries |-> rd.entries,
                         newEntries |-> entries,
                         encryptionKey |-> appState.encryptionKey,
                         verificationKey |-> appState.verificationKey]
                   /\ IF out.err = Nil
                      THEN /\ added' = Append(added, [entry |-> entry,
                                                      plaintext |-> pass])
                           /\ lastOp' = [op |-> "add", err |-> Nil,
                                         pw |-> appState.masterPassword]
                      ELSE /\ lastOp' =
                                [op |-> "add",
                                 err |-> <<"failed to save password">> \o out.err,
                                 pw |-> appState.masterPassword]
                           /\ UNCHANGED added
  /\ UNCHANGED <<trial, keyBuffers>>
  /\ UNCHANGED <<keypairFile, appState, screen, inputs, nAdds, nRuns, shown>>

\* the View Passwords button
ClickView ==
  /\ screen = "main"
  /\ Len(goroutines) < MaxPending
  /\ goroutines' = Append(goroutines, [kind |-> "view", pass |-> <<>>])
  /\ UNCHANGED <<trial, keyBuffers>>
  /\ UNCHANGED <<vaultFile, keypairFile, appState, screen, inputs, nAdds,
                 nRuns, added, lastOp, lastWrite, shown>>

\* showPasswordsWindow: one item per entry.  The labels carry the position
\* and the text; id is the id of the entry the item was made from.
RECURSIVE showPasswordsWindow(_, _)
showPasswordsWindow(entries, privateKey) ==
  IF entries = <<>> THEN <<>>
  ELSE LET entry == Head(entries)
           dk == Decapsulate(entry.KyberCiphertext, privateKey)
           pt == DecryptAES256GCM(entry.Nonce, entry.Ciphertext, dk.ss)
           rest == showPasswordsWindow(Tail(entries), privateKey)
       IN  IF dk.err # Nil
           THEN <<[id |-> entry.ID, err |-> dk.err, text |-> <<>>]>>
           ELSE IF pt.err # Nil
           THEN <<[id |-> entry.ID, err |-> <<"ERROR Decryption">> \o pt.err,
                   text |-> <<>>]>> \o rest
           ELSE <<[id |-> entry.ID, err |-> Nil, text |-> pt.plaintext]>>
                  \o rest

Panicked(items) == \E j \in 1..Len(items) : items[j].err = <<"panic">>

\* the View Passwords goroutine, and the window it has the main thread show
ViewGoroutine(i) ==
  /\ screen \in {"main", "quit"}
  /\ i \in 1..Len(goroutines)
  /\ goroutines[i].kind = "view"
  /\ LET rd == ReadVault(vaultFile, appState.encryptionKey,
                         appState.verificationKey)
         items == showPasswordsWindow(rd.entries, appState.privateKey)
     IN  /\ IF rd.err # Nil
            THEN /\ lastOp' = [op |-> "view",
                               err |-> <<"failed to read vault">> \o rd.err,
                               pw |-> appState.masterPassword]
                 /\ goroutines' = Remove(goroutines, i)
                 /\ UNCHANGED <<shown, screen, appState, keyBuffers>>
            ELSE IF Len(rd.entries) = 0
            THEN /\ lastOp' = [op |-> "view", err |-> Nil,
                               pw |-> appState.masterPassword]
                 /\ shown' = <<>>
                 /\ goroutines' = Remove(goroutines, i)
                 /\ UNCHANGED <<screen, appState, keyBuffers>>
            ELSE IF Panicked(items)
            THEN \* DecapsulateTo panicked: the process dies
                 /\ lastOp' = [op |-> "view", err |-> <<"panic">>,
                               pw |-> appState.masterPassword]
                 /\ shown' = items
                 /\ screen' = "off"
                 /\ appState' = ZeroAppState
                 /\ goroutines' = <<>>
                 /\ keyBuffers' = NoBuffers
            ELSE /\ lastOp' = [op |-> "view", err |-> Nil,
                               pw |-> appState.masterPassword]
                 /\ shown' = items
                 /\ goroutines' = Remove(goroutines, i)
                 /\ UNCHANGED <<screen, appState, keyBuffers>>
  /\ UNCHANGED trial
  /\ UNCHANGED <<vaultFile, keypairFile, inputs, nAdds, nRuns, added,
                 lastWrite>>

\* the Lock Vault button: clears the session under the mutex, then Quit.
\* The key fields are given new empty slices; the slices they held are not
\* written to (WipeBytes is not called).
LockVaultMutKeepsKeys ==
  /\ screen = "main"
  /\ appState' = [appState EXCEPT !.isUnlocked = FALSE,
                                  !.masterPassword = ""]
  /\ screen' = "quit"
  /\ UNCHANGED <<trial, keyBuffers>>
  /\ UNCHANGED <<vaultFile, keypairFile, goroutines, inputs, nAdds, nRuns,
                 added, lastOp, lastWrite, shown>>

LockVault ==
  /\ screen = "main"
  /\ appState' = [appState EXCEPT !.isUnlocked = FALSE,
                                  !.masterPassword = "",
                                  !.encryptionKey = <<>>,
                                  !.verificationKey = <<>>]
  /\ screen' = "quit"
  /\ UNCHANGED <<trial, keyBuffers>>
  /\ UNCHANGED <<vaultFile, keypairFile, goroutines, inputs, nAdds, nRuns,
                 added, lastOp, lastWrite, shown>>

Next ==
  \/ Start
  \/ Exit
  \/ \E pw \in inputs.passwords, r \in inputs.salts : createNewVault(pw, r)
  \/ \E pw \in inputs.passwords, r \in inputs.rand : unlockVault(pw, r)
  \/ \E pass \in inputs.secrets : ClickAdd(pass)
  \/ \E i \in 1..MaxPending, r \in inputs.rand : AddGoroutine(i, r)
  \/ ClickView
  \/ \E i \in 1..MaxPending : ViewGoroutine(i)
  \/ LockVault

Spec == Init /\ [][Next]_vars

SpecLong == InitLong /\ [][Next]_vars

(***************************************************************************)
(* The vault container handled directly (core/crypto/vault.go), as         *)
(* TestVaultEncryption and TestVaultIntegrity do: a container is sealed,   *)
(* then it, or the file it is serialized to, is changed by somebody else,  *)
(* then it is opened.                                                      *)
(***************************************************************************)
\* the value of a trial's field for a call not made yet
NotCalled == [err |-> <<"not called">>]

\* bits of a uint32 field that are inverted; values stay below 2^31
Uint32Bits == 0..30

Uint8Bits == 0..7

\* bits inverted in a byte of the encrypted payload, and in a byte of the file
PayloadBits == {0, 7}

\* EncryptVault on the entries of a vault with one secret, with the keys
\* DeriveKeys gives for masterPassword; then VaultFile.Serialize
Seal(masterPassword, pass, kp, salt, r) ==
  /\ trial.phase = "start"
  /\ LET kdfParams == [DefaultKDFParams EXCEPT !.Salt = GenerateSalt(salt)]
         keys == DeriveKeys(masterPassword, kdfParams, r)
         plaintext == SerializeAll(<<EncryptEntry(pass, kp, r)>>)
         enc == EncryptVault(plaintext, keys.encryptionKey,
                             keys.verificationKey, kdfParams,
                             RandBytes(NonceSize, r))
     IN  trial' = [phase |-> "sealed", change |-> "none",
                   password |-> masterPassword,
                   encryptionKey |-> keys.encryptionKey,
                   verificationKey |-> keys.verificationKey,
                   plaintext |-> plaintext,
                   vault |-> enc.vault,
                   file |-> VaultFileSerialize(enc.vault),
                   tagOK |-> TRUE, result |-> NotCalled,
                   unlock |-> NotCalled, read |-> NotCalled]
  /\ UNCHANGED session

Changed(what, vault, file) ==
  [trial EXCEPT !.phase = "changed", !.change = what, !.vault = vault,
                !.file = file]

\* vault.EncryptedData[i - 1] ^= 1 << k
FlipEncryptedData(i, k) ==
  /\ trial.phase = "sealed"
  /\ LET old == BAt(trial.vault.EncryptedData, i)
         new == BSet(trial.vault.EncryptedData, i, B(FlipBit(old.v, k)))
     IN  trial' = Changed("encrypted_payload",
                          [trial.vault EXCEPT !.EncryptedData = new],
                          trial.file)
  /\ UNCHANGED session

\* vault.KDFParams.Salt[i - 1] ^= 1 << k
FlipSalt(i, k) ==
  /\ trial.phase = "sealed"
  /\ LET old == BAt(trial.vault.KDFParams.Salt, i)
         new == BSet(trial.vault.KDFParams.Salt, i, B(FlipBit(old.v, k)))
     IN  trial' = Changed("salt",
                          [trial.vault EXCEPT !.KDFParams.Salt = new],
                          trial.file)
  /\ UNCHANGED session

\* vault.KDFParams.Memory ^= 1 << k
FlipMemory(k) ==
  /\ trial.phase = "sealed"
  /\ trial' = Changed("memory",
                      [trial.vault EXCEPT !.KDFParams.Memory = FlipBit(@, k)],
                      trial.file)
  /\ UNCHANGED session

\* vault.KDFParams.Iterations ^= 1 << k
FlipIterations(k) ==
  /\ trial.phase = "sealed"
  /\ trial' = Changed("iterations",
                      [trial.vault EXCEPT !.KDFParams.Iterations = FlipBit(@, k)],
                      trial.file)
  /\ UNCHANGED session

\* vault.KDFParams.Parallelism ^= 1 << k
FlipParallelism(k) ==
  /\ trial.phase = "sealed"
  /\ trial' = Changed("parallelism",
                      [trial.vault EXCEPT !.KDFParams.Parallelism = FlipBit(@, k)],
                      trial.file)
  /\ UNCHANGED session

\* the byte at offset i - 1 of the vault file gets bit k inverted
FlipFileByte(i, k) ==
  /\ trial.phase = "sealed"
  /\ LET old == BAt(trial.file, i)
     IN  trial' = Changed("file", trial.vault,
                          BSet(trial.file, i, B(FlipBit(old.v, k))))
  /\ UNCHANGED session

\* the version bytes VaultFileDeserialize does not support
VersionBytes == (0..255) \ {VaultVersion}

\* the first byte of the vault file, the format version, is set to v
SetVersion(v) ==
  /\ trial.phase = "sealed"
  /\ trial' = Changed("version", trial.vault, BSet(trial.file, 1, B(v)))
  /\ UNCHANGED session

\* DecryptVault on the container, with the keys it was sealed with.  tagOK
\* tells whether the stored tag is the tag of the container as it is now.
Open ==
  /\ trial.phase \in {"sealed", "changed"}
  /\ trial.change \notin {"file", "version"}
  /\ LET dec == DecryptVault(trial.vault, trial.encryptionKey,
                             trial.verificationKey)
     IN  trial' = [trial EXCEPT
                     !.phase = "opened",
                     !.tagOK = HMACSHA256(trial.verificationKey,
                                          HMACInput(trial.vault))
                                 = trial.vault.HMAC,
                     !.result = dec]
  /\ UNCHANGED session

\* unlockVault on the file with the password the container was sealed
\* under, and ReadVault on it with the keys it was sealed with
Reopen(r) ==
  /\ trial.phase \in {"sealed", "changed"}
  /\ trial.change \in {"none", "file", "version"}
  /\ trial' = [trial EXCEPT
                 !.phase = "reopened",
                 !.unlock = unlockVaultOutcome(trial.file, trial.password, r),
                 !.read = ReadVault(trial.file, trial.encryptionKey,
                                    trial.verificationKey)]
  /\ UNCHANGED session

\* the positions (counted from 1) of the bytes of the sealed container
Positions(field) ==
  IF trial.phase # "sealed" THEN {}
  ELSE IF field = "EncryptedData" THEN 1..BLen(trial.vault.EncryptedData)
  ELSE IF field = "Salt" THEN 1..BLen(trial.vault.KDFParams.Salt)
  ELSE 1..BLen(trial.file)

NextTamper ==
  \/ \E pw \in inputs.passwords, pass \in inputs.secrets, kp \in KeyIds,
        salt \in inputs.salts, r \in inputs.rand :
          Seal(pw, pass, kp, salt, r)
  \/ \E i \in Positions("EncryptedData"), k \in PayloadBits :
          FlipEncryptedData(i, k)
  \/ \E i \in Positions("Salt"), k \in Uint8Bits : FlipSalt(i, k)
  \/ \E k \in Uint32Bits : FlipMemory(k)
  \/ \E k \in Uint32Bits : FlipIterations(k)
  \/ \E k \in Uint8Bits : FlipParallelism(k)
  \/ \E i \in Positions("file"), k \in PayloadBits : FlipFileByte(i, k)
  \/ \E v \in VersionBytes : SetVersion(v)
  \/ Open
  \/ \E r \in inputs.rand : Reopen(r)

InitTamper ==
  InitWith([passwords |-> {"Tr0ub4dor&3"}, secrets |-> ShortSecrets,
            rand |-> {1, 255}, salts |-> {7}, maxAdds |-> 0])

SpecTamper == InitTamper /\ [][NextTamper]_vars

(***************************************************************************)
(* Key derivation handled directly (the kdf part of core/crypto), as       *)
(* TestKDFDeriveKeys does: keys are derived, derived again, and a vault    *)
(* written with them is opened again from the file and the password.       *)
(***************************************************************************)
\* the KDFParams values passed to DeriveKeys
KDFParamsInputs ==
  {MkKDFParams(salt, memory, iterations, parallelism) :
     salt \in {<<>>, GenerateSalt(7), GenerateSalt(9)},
     memory \in {DefaultMemory, 2 * DefaultMemory},
     iterations \in {DefaultIterations, DefaultIterations + 2},
     parallelism \in {DefaultParallelism, 1}}

\* keys, err := DeriveKeys(masterPassword, params)
Derive(masterPassword, params, r) ==
  /\ trial.phase = "start"
  /\ LET keys == DeriveKeys(masterPassword, params, r)
     IN  trial' = [phase |-> "derived", password |-> masterPassword,
                   params |-> params,
                   encryptionKey |-> keys.encryptionKey,
                   verificationKey |-> keys.verificationKey,
                   again |-> NotCalled, file |-> <<>>, unlock |-> NotCalled]
  /\ UNCHANGED session

\* the same call once more
DeriveAgain(r) ==
  /\ trial.phase = "derived"
  /\ trial' = [trial EXCEPT
                 !.phase = "derived again",
                 !.again = DeriveKeys(trial.password, trial.params, r)]
  /\ UNCHANGED session

\* WriteVault with the derived keys and the same params; the write succeeds
WriteDerived(pass, r) ==
  /\ trial.phase = "derived"
  /\ LET w == WriteVaultData(<<EncryptEntry(pass, 1, r)>>,
                             trial.encryptionKey, trial.verificationKey,
                             trial.params, RandBytes(NonceSize, r))
     IN  trial' = [trial EXCEPT !.phase = "written", !.file = w.data]
  /\ UNCHANGED session

\* unlockVault on the written file with the same password
UnlockWritten(r) ==
  /\ trial.phase = "written"
  /\ trial' = [trial EXCEPT
                 !.phase = "unlocked",
                 !.unlock = unlockVaultOutcome(trial.file, trial.password, r)]
  /\ UNCHANGED session

NextKDF ==
  \/ \E pw \in inputs.passwords, params \in KDFParamsInputs,
        r \in inputs.rand : Derive(pw, params, r)
  \/ \E r \in inputs.rand : DeriveAgain(r)
  \/ \E pass \in inputs.secrets, r \in inputs.rand : WriteDerived(pass, r)
  \/ \E r \in inputs.rand : UnlockWritten(r)

InitKDF ==
  InitWith([passwords |-> {"Tr0ub4dor&3", "password"},
            secrets |-> {B1(104)}, rand |-> {1, 255}, salts |-> {7},
            maxAdds |-> 0])

SpecKDF == InitKDF /\ [][NextKDF]_vars

(***************************************************************************)
(* SpecCodec: PasswordEntry.Serialize and Deserialize as pure functions.   *)
(* An entry is drawn, serialized, and the bytes are deserialized again.    *)
(***************************************************************************)
\* lengths of the variable-length fields, up to the first one a uint16
\* length prefix cannot hold
KyberLens == {0, 2, KyberCiphertextSize}
CiphertextLens == {0, GCMTagSize + 1, 65535, 65536}

EntryInputs ==
  {MkEntry(id, Rep(B(r), kl), RandBytes(NonceSize, r), Rep(B(r + 1), cl)) :
     id \in {0, 1, 258}, kl \in KyberLens, cl \in CiphertextLens,
     r \in inputs.rand}

\* data := pe.Serialize()
Encode(pe) ==
  /\ trial.phase = "start"
  /\ trial' = [phase |-> "encoded", entry |-> pe, data |-> EntrySerialize(pe),
               decoded |-> NotCalled]
  /\ UNCHANGED session

\* model.Deserialize(data)
Decode ==
  /\ trial.phase = "encoded"
  /\ trial' = [trial EXCEPT !.phase = "decoded",
                            !.decoded = EntryDeserialize(trial.data)]
  /\ UNCHANGED session

NextCodec ==
  \/ \E pe \in EntryInputs : Encode(pe)
  \/ Decode

InitCodec ==
  InitWith([passwords |-> {"Tr0ub4dor&3"}, secrets |-> {B1(104)},
            rand |-> {1, 254}, salts |-> {7}, maxAdds |-> 0])

SpecCodec == InitCodec /\ [][NextCodec]_vars

(***************************************************************************)
(* SpecCipher: EncryptVault and DecryptVault handled directly, as          *)
(* TestVaultEncryption does: a plaintext is sealed under two 32-byte keys  *)
(* and the container is opened with the same keys.                         *)
(***************************************************************************)
\* plaintexts: none, "test data", one serialized entry
PlaintextInputs ==
  {Nil, Rep(B(116), 9),
   EntrySerialize(MkEntry(1, Rep(B(3), 2), RandBytes(NonceSize, 5),
                          Rep(B(4), GCMTagSize + 1)))}

\* encKey, verKey := make([]byte, 32); rand.Read
KeyInputs == {RandBytes(KeySize, r) : r \in {0, 1, 255}}

\* vault, _ := EncryptVault(plaintext, encKey, verKey, params)
EncryptPlain(plaintext, encKey, verKey, params, r) ==
  /\ trial.phase = "start"
  /\ LET enc == EncryptVault(plaintext, encKey, verKey, params,
                             RandBytes(NonceSize, r))
     IN  trial' = [phase |-> "encrypted", plaintext |-> plaintext,
                   encryptionKey |-> encKey, verificationKey |-> verKey,
                   params |-> params, sealErr |-> enc.err, vault |-> enc.vault,
                   openEncryptionKey |-> <<>>, openVerificationKey |-> <<>>,
                   result |-> NotCalled]
  /\ UNCHANGED session

\* decrypted, _ := DecryptVault(vault, encKey, verKey)
DecryptSealed ==
  /\ trial.phase = "encrypted"
  /\ trial' = [trial EXCEPT
                 !.phase = "decrypted",
                 !.result = DecryptVault(trial.vault, trial.encryptionKey,
                                         trial.verificationKey)]
  /\ UNCHANGED session

\* the encryption keys tried on a sealed container: 32 bytes, 16 bytes, none
OtherKeyInputs == KeyInputs \cup {RandBytes(16, 1), Nil}

\* _, err := DecryptVault(vault, badKey, verKey), and with another verKey
DecryptOther(encKey, verKey) ==
  /\ trial.phase = "encrypted"
  /\ encKey # trial.encryptionKey \/ verKey # trial.verificationKey
  /\ trial' = [trial EXCEPT
                 !.phase = "decrypted with other keys",
                 !.openEncryptionKey = encKey,
                 !.openVerificationKey = verKey,
                 !.result = DecryptVault(trial.vault, encKey, verKey)]
  /\ UNCHANGED session

NextCipher ==
  \/ \E p \in PlaintextInputs, ek \in KeyInputs, vk \in KeyInputs,
        params \in KDFParamsInputs, r \in inputs.rand :
          EncryptPlain(p, ek, vk, params, r)
  \/ DecryptSealed
  \/ \E ek \in OtherKeyInputs, vk \in KeyInputs : DecryptOther(ek, vk)

InitCipher ==
  InitWith([passwords |-> {"Tr0ub4dor&3"}, secrets |-> {B1(104)},
            rand |-> {1, 255}, salts |-> {7}, maxAdds |-> 0])

SpecCipher == InitCipher /\ [][NextCipher]_vars

(***************************************************************************)
(* SpecRead: ReadVault handled directly.  The path names no file, a file   *)
(* that cannot be read, or a container sealed over a payload of entries,   *)
(* the first of which may declare a length that is out of range.           *)
(***************************************************************************)
GoodEntries ==
  {MkEntry(1, Rep(B(3), 2), RandBytes(NonceSize, 5), Rep(B(4), GCMTagSize + 1)),
   MkEntry(2, Nil, RandBytes(NonceSize, 6), Rep(B(7), GCMTagSize))}

\* the lists of at most MaxGood well-formed entries
GoodLists ==
  UNION {[1..n -> GoodEntries] : n \in 0..MaxGood}

CorruptKinds == {"none", "kyberLen", "ciphertextLen"}

\* a serialized entry with one of its two length fields set to 65535
CorruptEntry(kind) ==
  LET pe == MkEntry(9, Rep(B(8), 2), RandBytes(NonceSize, 5),
                    Rep(B(6), GCMTagSize + 2))
      data == EntrySerialize(pe)
      posCiphertextLen == 8 + 2 + BLen(pe.KyberCiphertext) + 12
  IN  IF kind = "kyberLen"
      THEN Slice(data, 0, 8) ++ PutUint16(65535) ++ BDrop(data, 10)
      ELSE IF kind = "ciphertextLen"
      THEN Slice(data, 0, posCiphertextLen) ++ PutUint16(65535)
             ++ BDrop(data, posCiphertextLen + 2)
      ELSE Nil

\* a vault file whose payload is the corrupt entry and then the good ones
StoreVault(kind, good, encryptionKey, verificationKey, r) ==
  /\ trial.phase = "start"
  /\ LET payload == CorruptEntry(kind) ++ SerializeAll(good)
         enc == EncryptVault(payload, encryptionKey, verificationKey,
                             MkKDFParams(GenerateSalt(r), DefaultMemory,
                                         DefaultIterations, DefaultParallelism),
                             RandBytes(NonceSize, r))
     IN  trial' = [phase |-> "stored", kind |-> kind, good |-> good,
                   encryptionKey |-> encryptionKey,
                   verificationKey |-> verificationKey,
                   file |-> VaultFileSerialize(enc.vault), read |-> NotCalled]
  /\ UNCHANGED session

\* vaultPath names no file
MissingFile(encryptionKey, verificationKey) ==
  /\ trial.phase = "start"
  /\ trial' = [phase |-> "stored", kind |-> "missing", good |-> <<>>,
               encryptionKey |-> encryptionKey,
               verificationKey |-> verificationKey,
               file |-> NoFile, read |-> NotCalled]
  /\ UNCHANGED session

\* vaultPath names a file that os.ReadFile fails on
UnreadableFile(encryptionKey, verificationKey) ==
  /\ trial.phase = "start"
  /\ trial' = [phase |-> "stored", kind |-> "unreadable", good |-> <<>>,
               encryptionKey |-> encryptionKey,
               verificationKey |-> verificationKey,
               file |-> Unreadable, read |-> NotCalled]
  /\ UNCHANGED session

\* ReadVault(vaultPath, encryptionKey, verificationKey)
ReadStored ==
  /\ trial.phase = "stored"
  /\ trial' = [trial EXCEPT
                 !.phase = "read",
                 !.read = ReadVault(trial.file, trial.encryptionKey,
                                    trial.verificationKey)]
  /\ UNCHANGED session

NextRead ==
  \/ \E kind \in CorruptKinds, good \in GoodLists, ek \in KeyInputs,
        vk \in KeyInputs, r \in inputs.rand :
          StoreVault(kind, good, ek, vk, r)
  \/ \E ek \in KeyInputs \cup {Nil}, vk \in KeyInputs \cup {Nil} :
          MissingFile(ek, vk)
  \/ \E ek \in KeyInputs \cup {Nil}, vk \in KeyInputs \cup {Nil} :
          UnreadableFile(ek, vk)
  \/ ReadStored

InitRead ==
  InitWith([passwords |-> {"Tr0ub4dor&3"}, secrets |-> {B1(104)},
            rand |-> {7}, salts |-> {7}, maxAdds |-> 0])

SpecRead == InitRead /\ [][NextRead]_vars

(***************************************************************************)
(* SpecConc: the goroutines of the Add Password and View Passwords buttons *)
(* step by step.  Each goroutine locks appState.mu, reads the vault, and   *)
(* (Add) appends its entry and writes the vault; the deferred Unlock runs  *)
(* when it returns.  The vault is unlocked and stays so.                   *)
(***************************************************************************)
Goroutines == 1..MaxGoroutines

NotStarted ==
  [pc |-> "idle", kind |-> "", pass |-> <<>>, entries |-> <<>>, err |-> Nil,
   startedWhile |-> 0]

\* an unlocked session on a vault that holds n entries
Unlocked(masterPassword, n, kp, salt, r) ==
  /\ trial.phase = "start"
  /\ LET kdfParams == [DefaultKDFParams EXCEPT !.Salt = GenerateSalt(salt)]
         keys == DeriveKeys(masterPassword, kdfParams, r)
         previous == [j \in 1..n |-> EncryptEntry(B1(112), kp, 16 + j)]
         w == WriteVaultData(previous, keys.encryptionKey,
                             keys.verificationKey, kdfParams,
                             RandBytes(NonceSize, r))
     IN  trial' = [phase |-> "unlocked", mu |-> 0, file |-> w.data,
                   encryptionKey |-> keys.encryptionKey,
                   verificationKey |-> keys.verificationKey,
                   kdfParams |-> kdfParams, publicKey |-> kp,
                   previous |-> previous, committed |-> <<>>,
                   g |-> [j \in Goroutines |-> NotStarted]]
  /\ UNCHANGED session

\* a button handler runs `go func() { ... }()`
Go(g, kind, pass) ==
  /\ trial.phase = "unlocked"
  /\ trial.g[g].pc = "idle"
  /\ \A j \in 1..(g - 1) : trial.g[j].pc # "idle"
  /\ trial' = [trial EXCEPT !.g[g] = [NotStarted EXCEPT
                                        !.pc = "started", !.kind = kind,
                                        !.pass = pass,
                                        !.startedWhile = trial.mu]]
  /\ UNCHANGED session

\* appState.mu.Lock() without the mutex: the goroutine goes on at once
GoLockMutNoMutex(g) ==
  /\ trial.phase = "unlocked"
  /\ trial.g[g].pc = "started"
  /\ trial' = [trial EXCEPT !.g[g].pc = "locked"]
  /\ UNCHANGED session

\* appState.mu.Lock(): the goroutine goes on when the mutex is free
GoLock(g) ==
  /\ trial.phase = "unlocked"
  /\ trial.g[g].pc = "started"
  /\ trial.mu = 0
  /\ trial' = [trial EXCEPT !.g[g].pc = "locked", !.mu = g]
  /\ UNCHANGED session

\* entries, err := storage.ReadVault(...); on an error the goroutine returns
GoReadVault(g) ==
  /\ trial.phase = "unlocked"
  /\ trial.g[g].pc = "locked"
  /\ LET rd == ReadVault(trial.file, trial.encryptionKey,
                         trial.verificationKey)
     IN  IF rd.err # Nil
         THEN trial' = [trial EXCEPT
                          !.g[g].pc = "done",
                          !.g[g].err = <<"failed to read vault">> \o rd.err,
                          !.mu = 0]
         ELSE trial' = [trial EXCEPT !.g[g].pc = "read",
                                     !.g[g].entries = rd.entries]
  /\ UNCHANGED session

\* the Add goroutine from Encapsulate to its return
GoWriteVault(g, r) ==
  /\ trial.phase = "unlocked"
  /\ trial.g[g].pc = "read"
  /\ trial.g[g].kind = "add"
  /\ LET entry == EncryptEntry(trial.g[g].pass, trial.publicKey, r)
         entries == Append(trial.g[g].entries, entry)
         w == WriteVaultData(entries, trial.encryptionKey,
                             trial.verificationKey, trial.kdfParams,
                             RandBytes(NonceSize, r))
     IN  \E out \in WriteFile(trial.file, w.data) :
           trial' = [trial EXCEPT
                       !.file = out.file,
                       !.committed = IF out.err = Nil THEN Append(@, entry)
                                     ELSE @,
                       !.g[g].pc = "done",
                       !.g[g].entries = entries,
                       !.g[g].err = IF out.err = Nil THEN Nil
                                    ELSE <<"failed to save password">> \o out.err,
                       !.mu = 0]
  /\ UNCHANGED session

\* the View goroutine from the check of len(entries) to its return
GoShow(g) ==
  /\ trial.phase = "unlocked"
  /\ trial.g[g].pc = "read"
  /\ trial.g[g].kind = "view"
  /\ trial' = [trial EXCEPT !.g[g].pc = "done", !.mu = 0]
  /\ UNCHANGED session

NextConc ==
  \/ \E pw \in inputs.passwords, n \in 0..1, kp \in KeyIds,
        salt \in inputs.salts, r \in inputs.rand :
          Unlocked(pw, n, kp, salt, r)
  \/ \E g \in Goroutines, kind \in {"add", "view"}, pass \in inputs.secrets :
          Go(g, kind, pass)
  \/ \E g \in Goroutines : GoLock(g)
  \/ \E g \in Goroutines : GoReadVault(g)
  \/ \E g \in Goroutines, r \in inputs.rand : GoWriteVault(g, r)
  \/ \E g \in Goroutines : GoShow(g)

InitConc ==
  InitWith([passwords |-> {"Tr0ub4dor&3"}, secrets |-> {B1(104)},
            rand |-> {1, 255}, salts |-> {7}, maxAdds |-> 0])

SpecConc == InitConc /\ [][NextConc]_vars

(***************************************************************************)
(* SpecEntropy: createNewVault and one Add with a crypto/rand that may     *)
(* fail at each call of rand.Read.  The disk does not fail here.           *)
(***************************************************************************)
\* what one call of rand.Read may do: fill the buffer from r, or fail
RandOutcomes ==
  {[ok |-> TRUE, r |-> r] : r \in inputs.rand} \cup {[ok |-> FALSE, r |-> 0]}

\* buf := make([]byte, n); _, err := rand.Read(buf)
RandRead(n, rr) ==
  IF rr.ok THEN [err |-> Nil, buf |-> RandBytes(n, rr.r)]
  ELSE [err |-> <<"crypto/rand: entropy source unavailable">>,
        buf |-> Zeros(n)]

\* GenerateSalt with its error
GenerateSaltRand(rr) ==
  IF RandRead(SaltSize, rr).err # Nil
  THEN [err |-> RandRead(SaltSize, rr).err, salt |-> <<>>]
  ELSE [err |-> Nil, salt |-> GenerateSalt(rr.r)]

\* EncryptVault from the read of the nonce on
EncryptVaultRand(plaintext, encryptionKey, verificationKey, params, rr) ==
  IF RandRead(NonceSize, rr).err # Nil
  THEN [err |-> RandRead(NonceSize, rr).err, vault |-> NoVault]
  ELSE EncryptVault(plaintext, encryptionKey, verificationKey, params,
                    RandRead(NonceSize, rr).buf)

\* EncryptAES256GCM from the read of the nonce on
EncryptAES256GCMRand(plaintext, sharedSecret, rr) ==
  IF RandRead(NonceSize, rr).err # Nil
  THEN [err |-> RandRead(NonceSize, rr).err, nonce |-> <<>>,
        ciphertext |-> <<>>]
  ELSE EncryptAES256GCM(plaintext, sharedSecret, RandRead(NonceSize, rr).buf)

\* NewPasswordEntry: rand.Read(idBytes), its error is not looked at
NewPasswordEntryRand(rr) ==
  NewPasswordEntry(IF rr.ok THEN Zeros(7) ++ B1(rr.r) ELSE RandRead(8, rr).buf)

\* the reads of rand.Read that failed, by what they were for
Failed(named) == {n \in DOMAIN named : ~named[n].ok}

\* createNewVault; rsalt and rnonce are what rand.Read does for the salt
\* and for the nonce of the vault
CreateVaultRand(masterPassword, rsalt, rnonce) ==
  /\ trial.phase = "start"
  /\ LET salt == GenerateSaltRand(rsalt)
         kdfParams == [DefaultKDFParams EXCEPT !.Salt = salt.salt]
         keys == DeriveKeys(masterPassword, kdfParams, 0)
         enc == EncryptVaultRand(SerializeAll(<<>>), keys.encryptionKey,
                                 keys.verificationKey, kdfParams, rnonce)
         err == IF salt.err # Nil
                THEN <<"failed to generate salt">> \o salt.err
                ELSE IF enc.err # Nil
                THEN <<"failed to create vault", "failed to encrypt vault">>
                       \o enc.err
                ELSE Nil
         reads == IF salt.err # Nil THEN [salt |-> rsalt]
                  ELSE [salt |-> rsalt, vaultNonce |-> rnonce]
     IN  trial' = [phase |-> "created", failed |-> Failed(reads),
                   err |-> err, before |-> NoFile,
                   file |-> IF err = Nil THEN VaultFileSerialize(enc.vault)
                            ELSE NoFile,
                   encryptionKey |-> keys.encryptionKey,
                   verificationKey |-> keys.verificationKey,
                   kdfParams |-> kdfParams]
  /\ UNCHANGED session

\* the Add Password goroutine on the vault just created; r is the randomness
\* of Encapsulate, rnonce, rid and rvault are what rand.Read does for the
\* nonce of the entry, for its id and for the nonce of the vault
AddRand(pass, kp, r, rnonce, rid, rvault) ==
  /\ trial.phase = "created"
  /\ trial.err = Nil
  /\ LET rd == ReadVault(trial.file, trial.encryptionKey,
                         trial.verificationKey)
         kem == Encapsulate(kp, r)
         aes == EncryptAES256GCMRand(pass, kem.ss, rnonce)
         entry == [NewPasswordEntryRand(rid) EXCEPT
                     !.KyberCiphertext = kem.ct,
                     !.Nonce = aes.nonce,
                     !.Ciphertext = aes.ciphertext]
         enc == EncryptVaultRand(SerializeAll(Append(rd.entries, entry)),
                                 trial.encryptionKey, trial.verificationKey,
                                 trial.kdfParams, rvault)
         err == IF rd.err # Nil
                THEN <<"failed to read vault">> \o rd.err
                ELSE IF aes.err # Nil
                THEN <<"encryption failed">> \o aes.err
                ELSE IF enc.err # Nil
                THEN <<"failed to save password", "failed to encrypt vault">>
                       \o enc.err
                ELSE Nil
         reads == IF aes.err # Nil THEN [entryNonce |-> rnonce]
                  ELSE [entryNonce |-> rnonce, id |-> rid,
                        vaultNonce |-> rvault]
     IN  trial' = [trial EXCEPT
                     !.phase = "added",
                     !.failed = Failed(reads),
                     !.err = err,
                     !.before = trial.file,
                     !.file = IF err = Nil THEN VaultFileSerialize(enc.vault)
                              ELSE trial.file]
  /\ UNCHANGED session

NextEntropy ==
  \/ \E pw \in inputs.passwords, rsalt \in RandOutcomes,
        rnonce \in RandOutcomes : CreateVaultRand(pw, rsalt, rnonce)
  \/ \E pass \in inputs.secrets, kp \in KeyIds, r \in inputs.rand,
        rnonce \in RandOutcomes, rid \in RandOutcomes,
        rvault \in RandOutcomes : AddRand(pass, kp, r, rnonce, rid, rvault)

InitEntropy ==
  InitWith([passwords |-> {"Tr0ub4dor&3"}, secrets |-> ShortSecrets,
            rand |-> {1, 255}, salts |-> {7}, maxAdds |-> 0])

SpecEntropy == InitEntropy /\ [][NextEntropy]_vars

(***************************************************************************)
(* SpecEntryCipher: EncryptAES256GCM and DecryptAES256GCM handled          *)
(* directly, as TestEncryptDecryptRoundtrip does, and with other secrets.  *)
(***************************************************************************)
\* the strings encrypted: "", "h", "test_password"
StringInputs == {Nil, B1(104), Rep(B(116), 13)}

\* shared secrets of 32 and of 40 bytes
SharedSecretInputs ==
  {RandBytes(KeySize, a) ++ Rep(B(t), n) :
     a \in {0, 1}, t \in {5, 6}, n \in {0, 8}}

\* nonce, ciphertext, err := EncryptAES256GCM(plaintext, key)
EncryptString(plaintext, key, r) ==
  /\ trial.phase = "start"
  /\ LET enc == EncryptAES256GCM(plaintext, key, RandBytes(NonceSize, r))
     IN  trial' = [phase |-> "encrypted", plaintext |-> plaintext,
                   key |-> key, sealErr |-> enc.err, nonce |-> enc.nonce,
                   ciphertext |-> enc.ciphertext, otherKey |-> <<>>,
                   result |-> NotCalled]
  /\ UNCHANGED session

\* decrypted, err := DecryptAES256GCM(nonce, ciphertext, key2)
DecryptString(key2) ==
  /\ trial.phase = "encrypted"
  /\ trial' = [trial EXCEPT
                 !.phase = "decrypted",
                 !.otherKey = key2,
                 !.result = DecryptAES256GCM(trial.nonce, trial.ciphertext,
                                             key2)]
  /\ UNCHANGED session

NextEntryCipher ==
  \/ \E p \in StringInputs, k \in SharedSecretInputs, r \in inputs.rand :
          EncryptString(p, k, r)
  \/ \E k \in SharedSecretInputs : DecryptString(k)

InitEntryCipher ==
  InitWith([passwords |-> {"Tr0ub4dor&3"}, secrets |-> {B1(104)},
            rand |-> {1, 255}, salts |-> {7}, maxAdds |-> 0])

SpecEntryCipher == InitEntryCipher /\ [][NextEntryCipher]_vars

(***************************************************************************)
(* SpecDecode: model.Deserialize, VaultFileDeserialize and ReadVault given *)
(* bytes that no encoder wrote: an encoded entry or a vault file is        *)
(* overwritten at one position, cut short, lengthened behind its end or    *)
(* given a longer KDF field, and then decoded.                             *)
(***************************************************************************)
\* the end of the furthest slice data[lo:hi] that Deserialize evaluates
EntryDeserializeReach(data) ==
  IF BLen(data) < 8 + 2 + 12 + 2 THEN 0
  ELSE LET kyberLen == Uint16(Slice(data, 8, 10))
           idx1 == 10
       IN  IF BLen(data) < idx1 + kyberLen + 12 + 2 THEN idx1
           ELSE LET idx3 == idx1 + kyberLen + 12
                    ciphertextLen == Uint16(Slice(data, idx3, idx3 + 2))
                    idx4 == idx3 + 2
                IN  IF BLen(data) < idx4 + ciphertextLen THEN idx4
                    ELSE idx4 + ciphertextLen

\* the end of the furthest slice or index that VaultFileDeserialize and
\* KDFParamsDeserialize evaluate
VaultFileDeserializeReach(data) ==
  IF BLen(data) < 1 + 1 + 26 + 32 + 4 THEN 0
  ELSE IF BAt(data, 1).v # 1 THEN 1
  ELSE LET kdfLen == BAt(data, 2).v
           idx1 == 2
       IN  IF BLen(data) < idx1 + kdfLen + 32 + 4 THEN idx1
           ELSE IF kdfLen < KDFParamsSize THEN idx1 + kdfLen
           ELSE LET idx4 == idx1 + kdfLen + 32 + 4
                    encryptedLen == Uint32(Slice(data, idx4 - 4, idx4))
                IN  IF BLen(data) - idx4 < encryptedLen THEN idx4
                    ELSE idx4 + encryptedLen

\* encoded entries with short fields, and buffers of 0xFF bytes
EntryBuffers ==
  {EntrySerialize(MkEntry(258, Rep(B(3), kl), RandBytes(NonceSize, 5),
                          Rep(B(4), cl))) : kl \in {0, 3}, cl \in {0, 2}}
    \cup {Rep(B(255), n) : n \in {EntryHeaderSize, EntryHeaderSize + 6}}

\* vault files holding no entry and one entry, with the keys that seal them
ContainerInputs ==
  {[encryptionKey |-> RandBytes(KeySize, 1),
    verificationKey |-> RandBytes(KeySize, 255),
    file |-> VaultFileSerialize(
               EncryptVault(plaintext, RandBytes(KeySize, 1),
                            RandBytes(KeySize, 255),
                            [DefaultKDFParams EXCEPT !.Salt = GenerateSalt(7)],
                            RandBytes(NonceSize, 9)).vault)] :
     plaintext \in {Nil,
                    EntrySerialize(MkEntry(1, Rep(B(3), 2),
                                           RandBytes(NonceSize, 5),
                                           Rep(B(4), GCMTagSize + 1)))}}

PokeValues == {0, 27, 255}
AppendLens == {1, 40}
GrowLens == {1, 255 - KDFParamsSize}

TakeEntryBytes(buf) ==
  /\ trial.phase = "start"
  /\ trial' = [phase |-> "entry bytes", edits |-> {}, base |-> buf,
               data |-> buf, encryptionKey |-> <<>>, verificationKey |-> <<>>,
               reach |-> 0, entry |-> NotCalled, vault |-> NotCalled,
               read |-> NotCalled, baseRead |-> NotCalled]
  /\ UNCHANGED session

TakeContainerBytes(in) ==
  /\ trial.phase = "start"
  /\ trial' = [phase |-> "container bytes", edits |-> {}, base |-> in.file,
               data |-> in.file, encryptionKey |-> in.encryptionKey,
               verificationKey |-> in.verificationKey,
               reach |-> 0, entry |-> NotCalled, vault |-> NotCalled,
               read |-> NotCalled, baseRead |-> NotCalled]
  /\ UNCHANGED session

Editable(kind) ==
  /\ trial.phase \in {"entry bytes", "container bytes"}
  /\ kind \notin trial.edits

\* data[pos] = v
Poke(pos, v) ==
  /\ Editable("poke")
  /\ trial.edits = {}
  /\ pos \in 1..BLen(trial.data)
  /\ BAt(trial.data, pos) # B(v)
  /\ trial' = [trial EXCEPT !.edits = @ \cup {"poke"},
                            !.data = BSet(@, pos, B(v))]
  /\ UNCHANGED session

\* data = data[:n]
Truncate(n) ==
  /\ Editable("cut")
  /\ trial.edits \subseteq {"poke"}
  /\ n < BLen(trial.data)
  /\ trial' = [trial EXCEPT !.edits = @ \cup {"cut"},
                            !.data = BTake(@, n)]
  /\ UNCHANGED session

\* data = append(data, junk...)
AppendJunk(k) ==
  /\ Editable("append")
  /\ "cut" \notin trial.edits
  /\ trial' = [trial EXCEPT !.edits = @ \cup {"append"},
                            !.data = @ ++ Rep(B(170), k)]
  /\ UNCHANGED session

\* the KDF field of a vault file made k bytes longer: kdf_params_len is
\* raised by k and k bytes are put in behind the 26 bytes of the parameters
GrowKDF(k) ==
  /\ Editable("grow")
  /\ trial.phase = "container bytes"
  /\ trial.edits \subseteq {"append"}
  /\ LET kdfLen == BAt(trial.data, 2).v
     IN  /\ kdfLen + k <= 255
         /\ trial' = [trial EXCEPT
                        !.edits = @ \cup {"grow"},
                        !.data = BTake(@, 1) ++ B1(kdfLen + k)
                                   ++ Slice(@, 2, 2 + kdfLen)
                                   ++ Rep(B(85), k) ++ BDrop(@, 2 + kdfLen)]
  /\ UNCHANGED session

\* model.Deserialize(data)
DecodeBytes ==
  /\ trial.phase = "entry bytes"
  /\ trial' = [trial EXCEPT !.phase = "entry decoded",
                            !.reach = EntryDeserializeReach(trial.data),
                            !.entry = EntryDeserialize(trial.data)]
  /\ UNCHANGED session

\* crypto.VaultFileDeserialize(data), then ReadVault of the file holding
\* data and of the file as it was written
DeserializeBytes ==
  /\ trial.phase = "container bytes"
  /\ trial' = [trial EXCEPT
                 !.phase = "container decoded",
                 !.reach = VaultFileDeserializeReach(trial.data),
                 !.vault = VaultFileDeserialize(trial.data),
                 !.read = ReadVault(trial.data, trial.encryptionKey,
                                    trial.verificationKey),
                 !.baseRead = ReadVault(trial.base, trial.encryptionKey,
                                        trial.verificationKey)]
  /\ UNCHANGED session

NextDecode ==
  \/ \E buf \in EntryBuffers : TakeEntryBytes(buf)
  \/ \E in \in ContainerInputs : TakeContainerBytes(in)
  \/ \E pos \in 1..(VaultHeaderSize + 2), v \in PokeValues : Poke(pos, v)
  \/ \E n \in 0..(2 * VaultHeaderSize) : Truncate(n)
  \/ \E k \in AppendLens : AppendJunk(k)
  \/ \E k \in GrowLens : GrowKDF(k)
  \/ DecodeBytes
  \/ DeserializeBytes

InitDecode ==
  InitWith([passwords |-> {"Tr0ub4dor&3"}, secrets |-> {B1(104)},
            rand |-> {1}, salts |-> {7}, maxAdds |-> 0])

SpecDecode == InitDecode /\ [][NextDecode]_vars

(***************************************************************************)
(* SpecLock: the session, with a vault file that may be removed from the   *)
(* directory while the window is open or after Lock Vault.                 *)
(***************************************************************************)
\* vault.pqdb is removed by another program
RemoveVaultFile ==
  /\ screen \in {"main", "quit"}
  /\ vaultFile # NoFile
  /\ vaultFile' = NoFile
  /\ UNCHANGED trial
  /\ UNCHANGED <<keypairFile, appState, screen, goroutines, inputs, nAdds,
                 nRuns, added, lastOp, lastWrite, shown, keyBuffers>>

NextLock ==
  \/ Next
  \/ RemoveVaultFile

InitLock ==
  InitWith([passwords |-> {"Tr0ub4dor&3"}, secrets |-> {B1(104)},
            rand |-> {1, 255}, salts |-> {7}, maxAdds |-> MaxAdds])

SpecLock == InitLock /\ [][NextLock]_vars

(***************************************************************************)
(* SpecFrame: ReadVault on vault files whose payload, sealed under the     *)
(* keys it is read with, is put together from well-formed entries, entries *)
(* with a declared length of 65535, and a few stray bytes, and may lack    *)
(* its last bytes.                                                         *)
(***************************************************************************)
\* two well-formed entries, the smallest entry (24 bytes), the two entries
\* with a declared length out of range, and five stray bytes
PayloadPieces ==
  {EntrySerialize(pe) : pe \in GoodEntries}
    \cup {EntrySerialize(MkEntry(3, Nil, RandBytes(NonceSize, 0), Nil))}
    \cup {CorruptEntry(kind) : kind \in {"kyberLen", "ciphertextLen"}}
    \cup {Rep(B(1), 5)}

PieceLists == UNION {[1..n -> PayloadPieces] : n \in 0..MaxPieces}

\* bytes missing at the end of the payload
DropLens == {0, 1, 13, 25}

RECURSIVE ConcatAll(_)
ConcatAll(pieces) ==
  IF pieces = <<>> THEN Nil ELSE Head(pieces) ++ ConcatAll(Tail(pieces))

\* crypto.EncryptVault(payload, ...) and VaultFile.Serialize
StorePayload(pieces, drop) ==
  /\ trial.phase = "start"
  /\ drop <= BLen(ConcatAll(pieces))
  /\ LET all == ConcatAll(pieces)
         payload == BTake(all, BLen(all) - drop)
         encryptionKey == RandBytes(KeySize, 1)
         verificationKey == RandBytes(KeySize, 255)
         enc == EncryptVault(payload, encryptionKey, verificationKey,
                             [DefaultKDFParams EXCEPT !.Salt = GenerateSalt(7)],
                             RandBytes(NonceSize, 9))
     IN  trial' = [phase |-> "stored", pieces |-> pieces, payload |-> payload,
                   encryptionKey |-> encryptionKey,
                   verificationKey |-> verificationKey,
                   file |-> VaultFileSerialize(enc.vault), read |-> NotCalled]
  /\ UNCHANGED session

\* storage.ReadVault(vaultPath, encryptionKey, verificationKey)
ReadPayload ==
  /\ trial.phase = "stored"
  /\ trial' = [trial EXCEPT
                 !.phase = "read",
                 !.read = ReadVault(trial.file, trial.encryptionKey,
                                    trial.verificationKey)]
  /\ UNCHANGED session

NextFrame ==
  \/ \E pieces \in PieceLists, drop \in DropLens : StorePayload(pieces, drop)
  \/ ReadPayload

InitFrame ==
  InitWith([passwords |-> {"Tr0ub4dor&3"}, secrets |-> {B1(104)},
            rand |-> {1}, salts |-> {7}, maxAdds |-> 0])

SpecFrame == InitFrame /\ [][NextFrame]_vars

(***************************************************************************)
(* Properties of the session (Spec, SpecLong).                             *)
(***************************************************************************)
AddedEntries == [i \in 1..Len(added) |-> added[i].entry]

AddedSecrets ==
  [i \in 1..Len(added) |->
     [id |-> added[i].entry.ID, err |-> Nil, text |-> added[i].plaintext]]

\* C1: after a successful add, reading the vault with the keys it was
\* written with returns exactly the entries added so far, in the order they
\* were added, each with the id, encapsulated secret, nonce and ciphertext
\* it was written with.
C1_AddsPreserved ==
  (lastOp.op = "add" /\ lastOp.err = Nil) =>
    LET rd == ReadVault(vaultFile, lastWrite.encryptionKey,
                        lastWrite.verificationKey)
    IN  rd.err = Nil /\ rd.entries = AddedEntries

\* C2: create vault, add secrets, lock, unlock with the same password, list:
\* the list shows exactly the added plaintexts, in order, each made from the
\* entry with the id assigned when it was added.
C2_RoundTrip ==
  (/\ lastOp.op = "view"
   /\ lastOp.pw # ""
   /\ nRuns >= 2
   /\ lastWrite.status # "failed") =>
    (lastOp.err = Nil /\ shown = AddedSecrets)

\* C3: a write over an existing vault that fails leaves the file as it was
\* before the write, so the entries stored before remain readable with the
\* same keys.
C3_WriteAllOrNothing ==
  (lastWrite.status = "failed" /\ lastWrite.prevFile # NoFile) =>
    /\ vaultFile = lastWrite.prevFile
    /\ LET rd == ReadVault(vaultFile, lastWrite.encryptionKey,
                            lastWrite.verificationKey)
       IN  rd.err = Nil /\ rd.entries = lastWrite.oldEntries

\* C4: after a write that stopped part-way, reading the file with the keys
\* of the session fails, or returns the old entry list, or returns the new
\* entry list.
C4_NoMixture ==
  lastWrite.status = "failed" =>
    LET rd == ReadVault(vaultFile, lastWrite.encryptionKey,
                        lastWrite.verificationKey)
    IN  \/ rd.err # Nil
        \/ rd.entries = lastWrite.oldEntries
        \/ rd.entries = lastWrite.newEntries

\* a write of a longer list over a vault with an entry stopped after the
\* header
C4_Witness ==
  /\ lastWrite.status = "failed"
  /\ vaultFile # lastWrite.prevFile
  /\ BLen(vaultFile) >= VaultHeaderSize
  /\ Len(lastWrite.oldEntries) > 0

\* the file is a vault that opens with the keys derived from password
OpensWith(file, password) ==
  /\ file # NoFile
  /\ VaultFileDeserialize(file).err = Nil
  /\ LET v == VaultFileDeserialize(file).vault
         keys == DeriveKeys(password, v.KDFParams, 0)
     IN  /\ keys.err = Nil
         /\ DecryptVault(v, keys.encryptionKey, keys.verificationKey).err = Nil

\* C7: an unlock attempt with a password Q on a vault sealed with the keys
\* of a password P # Q derives other keys, fails with the HMAC mismatch
\* error, and leaves the session locked with no password, keys or KDF
\* parameters.
C7_WrongPasswordRejected ==
  \A P \in inputs.passwords :
    (lastOp.op = "unlock" /\ lastOp.pw # P /\ OpensWith(vaultFile, P)) =>
      LET params == VaultFileDeserialize(vaultFile).vault.KDFParams
          kP == DeriveKeys(P, params, 0)
          kQ == DeriveKeys(lastOp.pw, params, 0)
      IN  /\ kQ.encryptionKey # kP.encryptionKey
          /\ kQ.verificationKey # kP.verificationKey
          /\ lastOp.err = <<"invalid master password or vault corrupted",
                            "vault integrity check failed: HMAC mismatch">>
          /\ screen = "unlock"
          /\ ~appState.isUnlocked
          /\ appState.masterPassword = ""
          /\ appState.encryptionKey = <<>>
          /\ appState.verificationKey = <<>>
          /\ appState.kdfParams = ZeroAppState.kdfParams

C7_Witness ==
  /\ lastOp.op = "unlock"
  /\ lastOp.pw = "wrong-pw"
  /\ OpensWith(vaultFile, "Tr0ub4dor&3")
  /\ Len(added) > 0

\* C16: lock zeroes the keys in memory.  After Lock Vault the byte slices
\* that held the encryption key and the verification key while the vault was
\* unlocked hold only zero bytes, and appState refers to no key material and
\* to no master password.
C16_LockZeroesKeys ==
  (screen = "quit" /\ keyBuffers # NoBuffers) =>
    /\ keyBuffers.encryptionKey = WipeBytes(keyBuffers.encryptionKey)
    /\ keyBuffers.verificationKey = WipeBytes(keyBuffers.verificationKey)
    /\ appState.encryptionKey = <<>>
    /\ appState.verificationKey = <<>>
    /\ appState.masterPassword = ""

\* C18: entry ids are unique per vault.  After any sequence of adds, the
\* entries stored in the vault have pairwise distinct ids.
C18_UniqueIds ==
  appState.isUnlocked =>
    LET rd == ReadVault(vaultFile, appState.encryptionKey,
                        appState.verificationKey)
    IN  rd.err = Nil =>
          \A i, j \in 1..Len(rd.entries) :
            i # j => rd.entries[i].ID # rd.entries[j].ID

\* C23: unlock and view do not write the vault file.  Every step of
\* unlockVault, whether it succeeds or fails, of the View Passwords button
\* and of its goroutine leaves the file byte for byte as it was; a step that
\* changes the file is a step of createNewVault or of the Add goroutine.
C23_UnlockViewNoWrite ==
  [][/\ ((\E pw \in inputs.passwords, r \in inputs.rand : unlockVault(pw, r))
           \/ ClickView
           \/ (\E i \in 1..MaxPending : ViewGoroutine(i)))
          => vaultFile' = vaultFile
     /\ vaultFile' # vaultFile
          => \/ \E pw \in inputs.passwords, r \in inputs.salts :
                  createNewVault(pw, r)
             \/ \E i \in 1..MaxPending, r \in inputs.rand : AddGoroutine(i, r)
    ]_vars

\* a view has shown the entries of a vault that an unlock with a wrong
\* password and then one with the right password were tried on
C23_Witness ==
  /\ lastOp.op = "view"
  /\ lastOp.err = Nil
  /\ Len(shown) > 0
  /\ nRuns = 2
  /\ OpensWith(vaultFile, lastOp.pw)

\* the vault file parses, its tag verifies and its payload decrypts under
\* the keys of the session, and it stores the KDF parameters of the session
FileOpensUnderSession ==
  LET des == VaultFileDeserialize(vaultFile)
  IN  /\ vaultFile # NoFile
      /\ des.err = Nil
      /\ DecryptVault(des.vault, appState.encryptionKey,
                      appState.verificationKey).err = Nil
      /\ des.vault.KDFParams = appState.kdfParams

\* a step that replaces a vault file that parses by another one that parses
\* keeps the KDF parameters stored in it
RewriteKeepsKDFParams ==
  (/\ vaultFile # NoFile
   /\ vaultFile' # vaultFile
   /\ VaultFileDeserialize(vaultFile).err = Nil
   /\ VaultFileDeserialize(vaultFile').err = Nil)
    => VaultFileDeserialize(vaultFile').vault.KDFParams
         = VaultFileDeserialize(vaultFile).vault.KDFParams

\* C27: whenever the session is unlocked (a write is one step of the model,
\* so none is in progress in any state), the vault file passes the integrity
\* check and decrypts under the session's keys, and the KDF parameters stored
\* in it are those generated when the vault was created: every rewrite by
\* add persists the same salt and cost parameters and seals with the same
\* keys.
C27_FileOpensUnderSessionKeys ==
  /\ [](appState.isUnlocked => FileOpensUnderSession)
  /\ [][RewriteKeepsKDFParams]_vars

\* C29: once Lock Vault has cleared the keys, no add goroutine writes the
\* vault file, an add started before the lock and run after it included: its
\* ReadVault or its EncryptVault fails with the empty keys and it returns with
\* an error, whether the vault file exists or not.
C29_NoWriteAfterLock ==
  [][(screen = "quit" /\ \E i \in 1..MaxPending, r \in inputs.rand :
                            AddGoroutine(i, r))
       => /\ vaultFile' = vaultFile
          /\ lastWrite' = lastWrite
          /\ added' = added
          /\ lastOp'.op = "add"
          /\ lastOp'.err # Nil]_vars

\* an add started before Lock Vault ran after it, with the vault file
\* removed: ReadVault returned no entries and EncryptVault refused the key
C29_Witness ==
  /\ screen = "quit"
  /\ vaultFile = NoFile
  /\ appState.encryptionKey = <<>>
  /\ lastOp.op = "add"
  /\ lastOp.pw = ""
  /\ lastOp.err # Nil
  /\ lastOp.err[1] = "failed to save password"

(***************************************************************************)
(* Properties of the container (SpecTamper).                               *)
(***************************************************************************)
HMACMismatch == <<"vault integrity check failed: HMAC mismatch">>

\* C5: after one bit of the encrypted payload, of the salt, of the memory
\* cost, of the time cost or of the parallelism of a sealed container was
\* inverted, DecryptVault with the original keys fails with the HMAC
\* mismatch error; and DecryptVault never returns a plaintext other than
\* the sealed one.
C5_TamperDetected ==
  trial.phase = "opened" =>
    /\ trial.change # "none" =>
         (trial.result.err = HMACMismatch /\ trial.result.plaintext = <<>>)
    /\ trial.result.err = Nil => trial.result.plaintext = trial.plaintext

C5_Witness ==
  /\ trial.phase = "opened"
  /\ trial.change = "parallelism"
  /\ trial.result.err = HMACMismatch

\* C6: after one byte of a written vault file was changed, unlockVault with
\* the right password fails, and so does ReadVault with the right keys.
C6_FileChangeRejected ==
  (trial.phase = "reopened" /\ trial.change = "file") =>
    (trial.unlock.err # Nil /\ trial.read.err # Nil)

\* C8: whenever the stored tag does not match, DecryptVault stops at the
\* comparison: gcm.Open is not run and no plaintext is returned.
C8_TagBeforeDecryption ==
  (trial.phase = "opened" /\ ~trial.tagOK) =>
    /\ trial.result.steps = <<"hmac.Equal">>
    /\ trial.result.plaintext = <<>>
    /\ trial.result.err # Nil

\* the tag does not match and the payload is the sealed one
C8_Witness ==
  /\ trial.phase = "opened"
  /\ ~trial.tagOK
  /\ trial.change = "salt"
  /\ trial.result.steps = <<"hmac.Equal">>

\* C15: unsupported versions are rejected.  For every vault file whose first
\* byte is not 1, unlockVault fails at parsing, before it derives keys, and
\* leaves the session locked; ReadVault fails at deserializing, returns no
\* entries, and does so whatever keys it is given.
C15_VersionRejected ==
  (trial.phase = "reopened" /\ BAt(trial.file, 1).v # VaultVersion) =>
    /\ trial.unlock.err = <<"failed to parse vault", "unsupported vault version">>
    /\ trial.unlock.encryptionKey = <<>>
    /\ trial.unlock.verificationKey = <<>>
    /\ trial.read.err = <<"failed to deserialize vault", "unsupported vault version">>
    /\ trial.read.entries = <<>>
    /\ \A ek \in KeyInputs \cup {Nil}, vk \in KeyInputs \cup {Nil} :
         ReadVault(trial.file, ek, vk) = trial.read

\* a file that is a sealed vault but for its version byte, 2, was reopened
C15_Witness ==
  /\ trial.phase = "reopened"
  /\ trial.change = "version"
  /\ BAt(trial.file, 1).v = 2
  /\ BSet(trial.file, 1, B(VaultVersion)) = VaultFileSerialize(trial.vault)
  /\ trial.unlock.err # Nil

\* what unlockVault shows when the vault as it was sealed is opened with
\* another master password
WrongPasswordMessage ==
  unlockVaultOutcome(VaultFileSerialize(trial.vault), "wrong-pw", 1).err

\* C19: a failed unlock shows the same message whatever the cause.  The
\* message unlockVault shows for a file that was changed, or that does not
\* parse, is the message it shows for a wrong master password.
C19_SameMessage ==
  (trial.phase = "reopened" /\ trial.unlock.err # Nil) =>
    trial.unlock.err = WrongPasswordMessage

\* C20: the layout of the serialized container.  The file is the format
\* version byte (1), the length of the KDF parameters (26), the KDF
\* parameters as salt(16) | memory(4, big-endian) | iterations(4, big-endian)
\* | parallelism(1) | KDF format version(1), the 32-byte tag, the length of
\* the payload (4, big-endian), and the payload: nonce(12) | AEAD ciphertext.
C20_DocumentedLayout ==
  trial.phase = "sealed" =>
    LET v == trial.vault
        p == v.KDFParams
        nonce == Slice(v.EncryptedData, 0, NonceSize)
        sealed == GCMSeal(trial.encryptionKey, nonce, trial.plaintext)
    IN  /\ BLen(p.Salt) = SaltSize
        /\ BLen(v.HMAC) = HMACSize
        /\ trial.file =
             B1(VaultVersion) ++ B1(KDFParamsSize)
               ++ p.Salt ++ PutUint32(p.Memory) ++ PutUint32(p.Iterations)
               ++ B1(p.Parallelism) ++ B1(1)
               ++ v.HMAC
               ++ PutUint32(NonceSize + BLen(sealed)) ++ nonce ++ sealed

(***************************************************************************)
(* Properties of the key derivation (SpecKDF).                             *)
(***************************************************************************)
\* C9: two calls of DeriveKeys with the same password and the same
\* parameters return the same encryption key and the same verification key.
C9_Deterministic ==
  trial.phase = "derived again" =>
    /\ trial.again.encryptionKey = trial.encryptionKey
    /\ trial.again.verificationKey = trial.verificationKey

\* C10: keys derived again from the password and the parameters stored in
\* the written file are the keys the vault was written with, and the vault
\* opens.
C10_Reproducible ==
  trial.phase = "unlocked" =>
    /\ trial.unlock.err = Nil
    /\ trial.unlock.encryptionKey = trial.encryptionKey
    /\ trial.unlock.verificationKey = trial.verificationKey


(***************************************************************************)
(* Properties of the entry codec (SpecCodec).                              *)
(***************************************************************************)
\* C11: entry codec round trip.  For every entry e (64-bit id, variable-length
\* encapsulated secret, nonce, variable-length ciphertext), deserializing the
\* bytes Serialize produced succeeds and gives back e.
C11_EntryRoundTrip ==
  trial.phase = "decoded" =>
    /\ trial.decoded.err = Nil
    /\ trial.decoded.entry = trial.entry

\* C26: for every entry, the two 2-byte big-endian length prefixes Serialize
\* writes equal the byte lengths of the KyberCiphertext and of the Ciphertext
\* that follow them, and the 12 bytes between them are the entry's nonce, so
\* that the record ends where its prefixes say it does.
C26_LengthPrefixes ==
  trial.phase \in {"encoded", "decoded"} =>
    LET kl == BLen(trial.entry.KyberCiphertext)
    IN  /\ Uint16(Slice(trial.data, 8, 10)) = kl
        /\ Slice(trial.data, 10 + kl, 22 + kl) = trial.entry.Nonce
        /\ Uint16(Slice(trial.data, 22 + kl, 24 + kl))
             = BLen(trial.entry.Ciphertext)
        /\ BLen(trial.data)
             = EntryHeaderSize + Uint16(Slice(trial.data, 8, 10))
                 + Uint16(Slice(trial.data, 22 + kl, 24 + kl))

(***************************************************************************)
(* Properties of the vault cipher (SpecCipher).                            *)
(***************************************************************************)
\* C12: vault cipher round trip.  For every plaintext (the empty one
\* included), every pair of 32-byte keys and all KDF parameters, EncryptVault
\* succeeds and DecryptVault with the same keys returns the plaintext.
C12_CipherRoundTrip ==
  trial.phase = "decrypted" =>
    /\ trial.sealErr = Nil
    /\ trial.result.err = Nil
    /\ trial.result.plaintext = trial.plaintext

\* an empty plaintext, sealed under two different keys and parameters other
\* than the default ones, was opened again
C12_Witness ==
  /\ trial.phase = "decrypted"
  /\ trial.plaintext = Nil
  /\ trial.encryptionKey # trial.verificationKey
  /\ trial.params # DefaultKDFParams
  /\ BLen(trial.vault.EncryptedData) = NonceSize + GCMTagSize
  /\ trial.result.err = Nil

C13_CorruptEntryIsolated ==
  (trial.phase = "read" /\ trial.kind \in {"kyberLen", "ciphertextLen"}) =>
    /\ trial.read.err = Nil
    /\ trial.read.entries = trial.good
    /\ trial.read.warnings = 1

\* C14: first run.  ReadVault on a path where no file exists returns an empty
\* entry list and no error, whatever the keys; any other failure to read the
\* file is returned as an error, with no entries.
C14_FirstRun ==
  trial.phase = "read" =>
    /\ trial.kind = "missing" =>
         trial.read.err = Nil /\ trial.read.entries = <<>>
    /\ trial.kind = "unreadable" =>
         /\ trial.read.err = <<"failed to read vault file", "permission denied">>
         /\ trial.read.entries = <<>>

\* ReadVault was called with no keys on a path that names no file
C14_Witness ==
  /\ trial.phase = "read"
  /\ trial.kind = "missing"
  /\ trial.file = NoFile
  /\ trial.encryptionKey = Nil
  /\ trial.read.err = Nil

(***************************************************************************)
(* Properties of the goroutines (SpecConc).                                *)
(***************************************************************************)
\* the goroutines between Lock and the deferred Unlock
InCycle == {g \in Goroutines : trial.g[g].pc \in {"locked", "read"}}

\* the Add goroutines that have returned without an error
AddsDone ==
  {g \in Goroutines : /\ trial.g[g].kind = "add"
                      /\ trial.g[g].pc = "done"
                      /\ trial.g[g].err = Nil}

\* C17: no lost updates within one process.  Every Add and every View
\* goroutine holds appState.mu from before it reads the vault until it has
\* written it (at most one of them is in that cycle at a time), and when all
\* the goroutines started have returned and none has failed, the vault holds
\* the entries it held before and the entry of every Add.
C17_NoLostUpdates ==
  trial.phase = "unlocked" =>
    /\ \A g \in InCycle : trial.mu = g
    /\ (\A g \in Goroutines :
          trial.g[g].pc \in {"idle", "done"} /\ trial.g[g].err = Nil) =>
         LET rd == ReadVault(trial.file, trial.encryptionKey,
                             trial.verificationKey)
         IN  /\ rd.err = Nil
             /\ rd.entries = trial.previous \o trial.committed
             /\ Len(trial.committed) = Cardinality(AddsDone)

\* two Add goroutines, the second started while the first held the mutex,
\* have both returned without an error, on a vault that held an entry
C17_Witness ==
  /\ trial.phase = "unlocked"
  /\ Len(trial.previous) = 1
  /\ AddsDone = {1, 2}
  /\ trial.g[2].startedWhile = 1
  /\ Len(trial.committed) = 2

(***************************************************************************)
(* Properties of the use of crypto/rand (SpecEntropy).                     *)
(***************************************************************************)
\* C21: a failure of the random source is surfaced.  When rand.Read fails in
\* a create or an add (for the salt, the nonce of the vault, the nonce of
\* the entry or the id of the entry), the operation returns an error and the
\* vault file is not written.
C21_EntropyFailureSurfaced ==
  (trial.phase \in {"created", "added"} /\ trial.failed # {}) =>
    /\ trial.err # Nil
    /\ trial.file = trial.before

(***************************************************************************)
(* Properties of the entry cipher (SpecEntryCipher).                       *)
(***************************************************************************)
\* C22: entry cipher round trip.  For every string p and every shared secret
\* k of 32 bytes or more, DecryptAES256GCM of what EncryptAES256GCM(p, k)
\* returned gives p under a secret with the same first 32 bytes, and an
\* error and no plaintext under a secret whose first 32 bytes differ.
C22_EntryCipherRoundTrip ==
  trial.phase = "decrypted" =>
    /\ trial.sealErr = Nil
    /\ IF Slice(trial.otherKey, 0, KeySize) = Slice(trial.key, 0, KeySize)
       THEN trial.result.err = Nil /\ trial.result.plaintext = trial.plaintext
       ELSE trial.result.err # Nil /\ trial.result.plaintext = <<>>

\* a string was encrypted under a secret of 40 bytes and decrypted under
\* the same secret
C22_Witness ==
  /\ trial.phase = "decrypted"
  /\ trial.plaintext = Rep(B(116), 13)
  /\ BLen(trial.key) = 40
  /\ trial.otherKey = trial.key
  /\ trial.result.err = Nil

(***************************************************************************)
(* Properties of the decoders on arbitrary bytes (SpecDecode).             *)
(***************************************************************************)
TruncatedEntry ==
  {<<"invalid password entry: too short">>,
   <<"invalid password entry: truncated kyber ciphertext">>,
   <<"invalid password entry: truncated ciphertext">>}

\* the buffer is shorter than 24 bytes plus the two lengths it declares
EntryShort(data) ==
  \/ BLen(data) < EntryHeaderSize
  \/ LET kl == Uint16(Slice(data, 8, 10))
     IN  \/ BLen(data) < EntryHeaderSize + kl
         \/ BLen(data) < EntryHeaderSize + kl
                           + Uint16(Slice(data, 22 + kl, 24 + kl))

\* the buffer is shorter than version, kdf_params_len, hmac and
\* encrypted_len (38 bytes) plus the KDF and payload lengths it declares
ContainerShort(data) ==
  \/ BLen(data) < 2
  \/ LET kl == BAt(data, 2).v
     IN  \/ BLen(data) < 38 + kl
         \/ BLen(data) - (38 + kl) < Uint32(Slice(data, 34 + kl, 38 + kl))

\* C25: on every byte sequence the decoders return a value or an error and
\* read nothing behind the end of the buffer; Deserialize fails, with one of
\* its truncation errors, exactly when the buffer is shorter than 24 bytes
\* plus the two declared lengths, and VaultFileDeserialize fails exactly when
\* the buffer is shorter than its fixed fields plus the declared KDF and
\* payload lengths, the version is not 1, or the KDF length is below 26.
C25_DecodersTotal ==
  /\ trial.phase = "entry decoded" =>
       /\ trial.reach <= BLen(trial.data)
       /\ (trial.entry.err # Nil) <=> EntryShort(trial.data)
       /\ trial.entry.err # Nil => trial.entry.err \in TruncatedEntry
       /\ trial.entry.err = Nil =>
            /\ BLen(trial.entry.entry.KyberCiphertext)
                 = Uint16(Slice(trial.data, 8, 10))
            /\ BLen(trial.entry.entry.Nonce) = NonceSize
            /\ EntryHeaderSize + BLen(trial.entry.entry.KyberCiphertext)
                 + BLen(trial.entry.entry.Ciphertext) = trial.reach
  /\ trial.phase = "container decoded" =>
       /\ trial.reach <= BLen(trial.data)
       /\ (trial.vault.err # Nil) <=>
            \/ ContainerShort(trial.data)
            \/ BAt(trial.data, 1).v # VaultVersion
            \/ BAt(trial.data, 2).v < KDFParamsSize
       /\ trial.vault.err = Nil =>
            /\ BLen(trial.vault.vault.KDFParams.Salt) = SaltSize
            /\ BLen(trial.vault.vault.HMAC) = HMACSize
            /\ 38 + BAt(trial.data, 2).v
                 + BLen(trial.vault.vault.EncryptedData) = trial.reach

\* bytes that are long enough for the header and the first field, with a
\* second declared length that runs behind the end, were decoded
C25_Witness ==
  /\ trial.phase = "entry decoded"
  /\ trial.edits # {}
  /\ BLen(trial.data) > EntryHeaderSize
  /\ trial.entry.err = <<"invalid password entry: truncated ciphertext">>

RECURSIVE FramedRecords(_, _)
FramedRecords(payload, idx) ==
  IF BLen(payload) - idx < EntryHeaderSize THEN <<>>
  ELSE LET kl == Uint16(Slice(payload, idx + 8, idx + 10))
       IN  IF BLen(payload) - idx < EntryHeaderSize + kl THEN <<>>
           ELSE LET cl == Uint16(Slice(payload, idx + 22 + kl, idx + 24 + kl))
                    size == EntryHeaderSize + kl + cl
                IN  IF BLen(payload) - idx < size THEN <<>>
                    ELSE <<Slice(payload, idx, idx + size)>>
                           \o FramedRecords(payload, idx + size)

\* the entry a record holds: id, length and KyberCiphertext, nonce, length
\* and Ciphertext
RecordEntry(rec) ==
  LET kl == Uint16(Slice(rec, 8, 10))
  IN  MkEntry(Uint64(Slice(rec, 0, 8)), Slice(rec, 10, 10 + kl),
              Slice(rec, 10 + kl, 22 + kl), BDrop(rec, 24 + kl))

=============================================================================
